---- MODULE Spec2Model ----
(***************************************************************************)
(* Model of the fulfillment core: the in-memory catalog (InventoryService), *)
(* the order ledger (OrderQueueService), the greedy packing strategy       *)
(* (GreedyFirstFitStrategy) and the orchestrator (FulfillmentService).     *)
(* Operations are coroutines: the code between two awaits is one atomic    *)
(* step, each durable-store access is a step of its own.                   *)
(***************************************************************************)
EXTENDS Integers, Sequences, FiniteSets, TLC

(***************************************************************************)
(* Program constants                                                       *)
(***************************************************************************)
MAX_PACKAGE_WEIGHT_G == 1800
BATCH_THRESHOLD == 100
BATCH_SIZE == 50
\* the controller's largest quantity of one item
MAX_ITEM_QUANTITY == 10000000

(***************************************************************************)
(* Bounds of the model                                                     *)
(***************************************************************************)
\* largest quantity of one item of an order or a restock
MaxQty == 2
\* number of operations started in one run
MaxOps == 4
\* largest unit mass and largest ceiling of the packing/reserve harness
MaxMass == 3
MaxCeiling == 5
\* turns of packShipment's loop are followed while the remaining quantity is at most this
MaxRemaining == 5

ProductIds == {1, 2}
OrderIds == {1, 2}

Min(a, b) == IF a <= b THEN a ELSE b
MinOf(S) == CHOOSE x \in S : \A y \in S : x <= y

Item(p, q) == [productId |-> p, quantity |-> q]

\* sequences over S of length lo..hi
SeqsOf(S, lo, hi) == UNION {[1..n -> S] : n \in lo..hi}

(***************************************************************************)
(* InventoryService: pure parts                                            *)
(***************************************************************************)
\* catalog.get(productId) !== undefined
HasProduct(cat, p) == p \in DOMAIN cat

GetAvailableStock(cat, p) ==
  IF HasProduct(cat, p) THEN cat[p].quantityInStock ELSE 0

RECURSIVE CalculateTotalMass(_, _)
CalculateTotalMass(cat, items) ==
  IF items = <<>> THEN 0
  ELSE (IF HasProduct(cat, Head(items).productId)
        THEN cat[Head(items).productId].massG * Head(items).quantity
        ELSE 0) + CalculateTotalMass(cat, Tail(items))

\* reserveStock without its stock check (a variant the no-oversell property must
\* tell from the code)
RECURSIVE ReserveLoopUnchecked(_, _)
ReserveLoopUnchecked(cat, items) ==
  IF items = <<>> THEN [ok |-> TRUE, error |-> "none", catalog |-> cat]
  ELSE LET it == Head(items) IN
       IF ~HasProduct(cat, it.productId)
       THEN [ok |-> FALSE, error |-> "ProductNotFound", catalog |-> cat]
       ELSE ReserveLoopUnchecked(
              [cat EXCEPT ![it.productId].quantityInStock = @ - it.quantity],
              Tail(items))

\* reserveStock's loop: validates and decrements item by item; a failing item
\* throws with the decrements of the items before it already applied in memory
RECURSIVE ReserveLoop(_, _)
ReserveLoop(cat, items) ==
  IF items = <<>> THEN [ok |-> TRUE, error |-> "none", catalog |-> cat]
  ELSE LET it == Head(items) IN
       IF ~HasProduct(cat, it.productId)
       THEN [ok |-> FALSE, error |-> "ProductNotFound", catalog |-> cat]
       ELSE IF cat[it.productId].quantityInStock < it.quantity
       THEN [ok |-> FALSE, error |-> "InsufficientStock", catalog |-> cat]
       ELSE ReserveLoop([cat EXCEPT ![it.productId].quantityInStock = @ - it.quantity],
                        Tail(items))

ReserveStock(cat, items) == ReserveLoop(cat, items)

\* processRestock's loop with a throw in place of its continue: the entries
\* after an unknown product are not applied (a variant best-effort restocking
\* must tell from the code)
RECURSIVE RestockLoopStrict(_, _)
RestockLoopStrict(cat, restock) ==
  IF restock = <<>> THEN cat
  ELSE LET it == Head(restock) IN
       IF ~HasProduct(cat, it.productId) THEN cat
       ELSE RestockLoopStrict([cat EXCEPT ![it.productId].quantityInStock = @ + it.quantity],
                              Tail(restock))

\* processRestock's loop with an assignment in place of its += (a variant the
\* doubling of a replayed restock must tell from the code)
RECURSIVE RestockLoopAssign(_, _)
RestockLoopAssign(cat, restock) ==
  IF restock = <<>> THEN cat
  ELSE LET it == Head(restock) IN
       IF ~HasProduct(cat, it.productId) THEN RestockLoopAssign(cat, Tail(restock))
       ELSE RestockLoopAssign([cat EXCEPT ![it.productId].quantityInStock = it.quantity],
                              Tail(restock))

\* processRestock's loop: unknown products are skipped
RECURSIVE RestockLoop(_, _)
RestockLoop(cat, restock) ==
  IF restock = <<>> THEN cat
  ELSE LET it == Head(restock) IN
       IF ~HasProduct(cat, it.productId) THEN RestockLoop(cat, Tail(restock))
       ELSE RestockLoop([cat EXCEPT ![it.productId].quantityInStock = @ + it.quantity],
                        Tail(restock))

(***************************************************************************)
(* GreedyFirstFitStrategy.packShipment                                     *)
(***************************************************************************)
CalculateShipmentWeight(cat, shipment) == CalculateTotalMass(cat, shipment)

\* items.map(...).filter(item => item.product && item.quantity > 0)
RECURSIVE ItemsWithWeight(_, _)
ItemsWithWeight(cat, items) ==
  IF items = <<>> THEN <<>>
  ELSE LET it == Head(items)
           rest == ItemsWithWeight(cat, Tail(items))
       IN IF HasProduct(cat, it.productId) /\ it.quantity > 0
          THEN <<[productId |-> it.productId, quantity |-> it.quantity,
                  unitWeight |-> cat[it.productId].massG]>> \o rest
          ELSE rest

\* stable insertion of x into a sequence sorted by unitWeight descending
RECURSIVE InsertByWeight(_, _)
InsertByWeight(sorted, x) ==
  IF sorted = <<>> THEN <<x>>
  ELSE IF Head(sorted).unitWeight >= x.unitWeight
       THEN <<Head(sorted)>> \o InsertByWeight(Tail(sorted), x)
       ELSE <<x>> \o sorted

\* .sort((a, b) => b.unitWeight - a.unitWeight), a stable sort
RECURSIVE SortHeaviestFirst(_)
SortHeaviestFirst(s) ==
  IF s = <<>> THEN <<>>
  ELSE InsertByWeight(SortHeaviestFirst(SubSeq(s, 1, Len(s) - 1)), s[Len(s)])

\* units added to an existing shipment when its current weight is ignored (a
\* variant the ceiling property must tell from the code)
UnitsToAddIgnoringWeight(cat, shipment, w, remainingQuantity, maxWeightG) ==
  Min(maxWeightG \div w, remainingQuantity)

\* units of a product of weight w that the loop adds to an existing shipment
UnitsToAdd(cat, shipment, w, remainingQuantity, maxWeightG) ==
  Min((maxWeightG - CalculateShipmentWeight(cat, shipment)) \div w, remainingQuantity)

\* the push of a new line whether or not the shipment holds the product (a
\* variant the one-line-per-product property must tell from the code)
AddToShipmentPushing(shipment, p, units) == Append(shipment, Item(p, units))

\* existingItem.quantity += unitsToAdd, or push a new line
AddToShipment(shipment, p, units) ==
  IF \E i \in DOMAIN shipment : shipment[i].productId = p
  THEN LET i == MinOf({j \in DOMAIN shipment : shipment[j].productId = p})
       IN [shipment EXCEPT ![i].quantity = @ + units]
  ELSE Append(shipment, Item(p, units))

\* one turn that looks only at the shipment created last before it opens a new
\* one (a variant the first-fit property must tell from the code)
PackTurnLastOnly(cat, item, maxWeightG, st) ==
  IF st.stop \/ st.remainingQuantity <= 0 THEN st
  ELSE LET maxUnitsPerShipment == maxWeightG \div item.unitWeight IN
       IF maxUnitsPerShipment = 0 THEN [st EXCEPT !.stop = TRUE]
       ELSE LET fits == {i \in DOMAIN st.shipments :
                           /\ i = Len(st.shipments)
                           /\ UnitsToAdd(cat, st.shipments[i], item.unitWeight,
                                         st.remainingQuantity, maxWeightG) > 0}
            IN IF fits # {}
               THEN LET i == MinOf(fits)
                        u == UnitsToAdd(cat, st.shipments[i], item.unitWeight,
                                        st.remainingQuantity, maxWeightG)
                    IN [st EXCEPT !.shipments[i] = AddToShipment(@, item.productId, u),
                                  !.remainingQuantity = @ - u]
               ELSE LET u == Min(maxUnitsPerShipment, st.remainingQuantity)
                    IN [st EXCEPT !.shipments = Append(@, <<Item(item.productId, u)>>),
                                  !.remainingQuantity = @ - u]

\* one turn of the while (remainingQuantity > 0) loop for one item; st holds the
\* shipments, the remaining quantity and whether the loop has left by break
PackTurn(cat, item, maxWeightG, st) ==
  IF st.stop \/ st.remainingQuantity <= 0 THEN st
  ELSE LET maxUnitsPerShipment == maxWeightG \div item.unitWeight IN
       IF maxUnitsPerShipment = 0 THEN [st EXCEPT !.stop = TRUE]
       ELSE LET fits == {i \in DOMAIN st.shipments :
                           UnitsToAdd(cat, st.shipments[i], item.unitWeight,
                                      st.remainingQuantity, maxWeightG) > 0}
            IN IF fits # {}
               THEN LET i == MinOf(fits)
                        u == UnitsToAdd(cat, st.shipments[i], item.unitWeight,
                                        st.remainingQuantity, maxWeightG)
                    IN [st EXCEPT !.shipments[i] = AddToShipment(@, item.productId, u),
                                  !.remainingQuantity = @ - u]
               ELSE LET u == Min(maxUnitsPerShipment, st.remainingQuantity)
                    IN [st EXCEPT !.shipments = Append(@, <<Item(item.productId, u)>>),
                                  !.remainingQuantity = @ - u]

\* n turns of the loop from st (the singleton set makes the value of the first
\* half known before the second half starts)
RECURSIVE PackTurns(_, _, _, _, _)
PackTurns(cat, item, maxWeightG, st, n) ==
  IF n <= 0 THEN st
  ELSE IF n = 1 THEN PackTurn(cat, item, maxWeightG, st)
  ELSE CHOOSE r \in {PackTurns(cat, item, maxWeightG, mid, n - (n \div 2)) :
                       mid \in {PackTurns(cat, item, maxWeightG, st, n \div 2)}} : TRUE

\* the loop left after its first turn (a variant the completeness property must
\* tell from the code)
PackItemOneTurn(cat, shipments, item, remainingQuantity, maxWeightG) ==
  PackTurn(cat, item, maxWeightG,
           [shipments |-> shipments, remainingQuantity |-> remainingQuantity,
            stop |-> FALSE]).shipments

\* the whole loop: every turn that does not break packs at least one unit, so
\* remainingQuantity turns reach the loop's exit
PackItem(cat, shipments, item, remainingQuantity, maxWeightG) ==
  PackTurns(cat, item, maxWeightG,
            [shipments |-> shipments, remainingQuantity |-> remainingQuantity,
             stop |-> FALSE],
            remainingQuantity).shipments

RECURSIVE PackItems(_, _, _, _)
PackItems(cat, shipments, sorted, maxWeightG) ==
  IF sorted = <<>> THEN shipments
  ELSE CHOOSE r \in {PackItems(cat, packed, Tail(sorted), maxWeightG) :
                       packed \in {PackItem(cat, shipments, Head(sorted),
                                            Head(sorted).quantity, maxWeightG)}} : TRUE

PackShipment(cat, items, maxWeightG) ==
  CHOOSE r \in {PackItems(cat, <<>>, itemsWithWeight, maxWeightG) :
                  itemsWithWeight \in {SortHeaviestFirst(ItemsWithWeight(cat, items))}} : TRUE

(***************************************************************************)
(* WeightBalancedStrategy.packShipment                                     *)
(***************************************************************************)
\* the inner for loop over remainingItems from position k; st holds the current
\* shipment, its weight and the remaining items. targetWeightPerShipment is
\* totalWeight / estimatedShipments, so floor(min(maxWeightG - w, target - w) / u)
\* is the smaller of the two integer quotients below
RECURSIVE BalancedFill(_, _, _, _, _, _)
BalancedFill(cat, maxWeightG, totalWeight, estimatedShipments, st, k) ==
  IF k > Len(st.remainingItems) THEN st
  ELSE LET item == st.remainingItems[k] IN
       IF item.quantity = 0 \/ ~HasProduct(cat, item.productId)
       THEN BalancedFill(cat, maxWeightG, totalWeight, estimatedShipments, st, k + 1)
       ELSE LET itemWeight == cat[item.productId].massG
                maxUnits == Min((maxWeightG - st.currentWeight) \div itemWeight,
                                (totalWeight - estimatedShipments * st.currentWeight)
                                  \div (estimatedShipments * itemWeight))
                unitsToAdd == Min(maxUnits, item.quantity)
            IN IF unitsToAdd > 0
               THEN BalancedFill(cat, maxWeightG, totalWeight, estimatedShipments,
                      [currentShipment |-> Append(st.currentShipment,
                                                  Item(item.productId, unitsToAdd)),
                       currentWeight |-> st.currentWeight + unitsToAdd * itemWeight,
                       remainingItems |-> [st.remainingItems EXCEPT
                                             ![k].quantity = @ - unitsToAdd]],
                      k + 1)
               ELSE BalancedFill(cat, maxWeightG, totalWeight, estimatedShipments, st, k + 1)

\* the outer loop for (i = 0; i < estimatedShipments; i++), left early once every
\* remaining quantity is 0
RECURSIVE BalancedShipments(_, _, _, _, _, _, _)
BalancedShipments(cat, maxWeightG, totalWeight, estimatedShipments, shipments, remainingItems, i) ==
  IF i >= estimatedShipments THEN shipments
  ELSE CHOOSE r \in
         {(LET pushed == IF st.currentShipment # <<>>
                         THEN Append(shipments, st.currentShipment) ELSE shipments
           IN IF \A k \in DOMAIN st.remainingItems : st.remainingItems[k].quantity = 0
              THEN pushed
              ELSE BalancedShipments(cat, maxWeightG, totalWeight, estimatedShipments,
                                     pushed, st.remainingItems, i + 1)) :
          st \in {BalancedFill(cat, maxWeightG, totalWeight, estimatedShipments,
                               [currentShipment |-> <<>>, currentWeight |-> 0,
                                remainingItems |-> remainingItems], 1)}} : TRUE

\* WeightBalancedStrategy.packShipment for a ceiling > 0 and positive masses
BalancedPackShipment(cat, items, maxWeightG) ==
  LET totalWeight == CalculateTotalMass(cat, items)
      estimatedShipments == (totalWeight + maxWeightG - 1) \div maxWeightG
  IN BalancedShipments(cat, maxWeightG, totalWeight, estimatedShipments, <<>>, items, 0)

(***************************************************************************)
(* OrderQueueService: pure parts                                           *)
(***************************************************************************)
\* shippedItems.find(item => item.productId === p): quantity of the first match, or 0
ShippedQuantity(shippedItems, p) ==
  IF \E i \in DOMAIN shippedItems : shippedItems[i].productId = p
  THEN shippedItems[MinOf({i \in DOMAIN shippedItems : shippedItems[i].productId = p})].quantity
  ELSE 0

RECURSIVE RemainingLoop(_, _)
RemainingLoop(requestedItems, shippedItems) ==
  IF requestedItems = <<>> THEN <<>>
  ELSE LET it == Head(requestedItems)
           remainingQuantity == it.quantity - ShippedQuantity(shippedItems, it.productId)
           rest == RemainingLoop(Tail(requestedItems), shippedItems)
       IN IF remainingQuantity > 0
          THEN <<Item(it.productId, remainingQuantity)>> \o rest
          ELSE rest

GetRemainingItems(order) == RemainingLoop(order.requestedItems, order.shippedItems)

IsOrderFulfilled(order) ==
  \A i \in DOMAIN order.requestedItems :
     ~(ShippedQuantity(order.shippedItems, order.requestedItems[i].productId)
         < order.requestedItems[i].quantity)

\* updateOrderShipment's merge of a package into order.shippedItems
RECURSIVE MergeShipped(_, _)
MergeShipped(shippedItems, items) ==
  IF items = <<>> THEN shippedItems
  ELSE MergeShipped(AddToShipment(shippedItems, Head(items).productId, Head(items).quantity),
                    Tail(items))

\* updateOrderShipment between its findOne and its save
UpdatedOrder(order, items) ==
  LET merged == [order EXCEPT !.shippedItems = MergeShipped(@, items),
                              !.totalShipments = @ + 1]
  IN [merged EXCEPT !.status = IF IsOrderFulfilled(merged)
                               THEN "fulfilled" ELSE "partially_fulfilled"]

\* enqueueOrder between its findOne and its save: found is the order read, or NoOrder
NoOrder == [orderId |-> 0, requestedItems |-> <<>>, shippedItems |-> <<>>,
            status |-> "none", totalShipments |-> 0, createdAt |-> 0]

\* enqueueOrder leaving the status of an order it finds as it is (a variant the
\* create-or-reset property must tell from the code)
EnqueuedOrderKeepingStatus(found, orderId, requestedItems) ==
  IF found # NoOrder
  THEN [found EXCEPT !.requestedItems = requestedItems]
  ELSE [orderId |-> orderId, requestedItems |-> requestedItems, shippedItems |-> <<>>,
        status |-> "pending", totalShipments |-> 0, createdAt |-> 0]

EnqueuedOrder(found, orderId, requestedItems) ==
  IF found # NoOrder
  THEN [found EXCEPT !.requestedItems = requestedItems, !.status = "pending"]
  ELSE [orderId |-> orderId, requestedItems |-> requestedItems, shippedItems |-> <<>>,
        status |-> "pending", totalShipments |-> 0, createdAt |-> 0]

(***************************************************************************)
(* FulfillmentService: pure parts                                          *)
(***************************************************************************)
\* getShippableItems without the cap at the available stock (a variant the
\* never-failing sequential runs must tell from the code)
RECURSIVE GetShippableItemsUncapped(_, _)
GetShippableItemsUncapped(cat, requestedItems) ==
  IF requestedItems = <<>> THEN <<>>
  ELSE LET it == Head(requestedItems)
           rest == GetShippableItemsUncapped(cat, Tail(requestedItems))
       IN IF it.quantity > 0
          THEN <<Item(it.productId, it.quantity)>> \o rest
          ELSE rest

RECURSIVE GetShippableItems(_, _)
GetShippableItems(cat, requestedItems) ==
  IF requestedItems = <<>> THEN <<>>
  ELSE LET it == Head(requestedItems)
           shippableQuantity == Min(it.quantity, GetAvailableStock(cat, it.productId))
           rest == GetShippableItems(cat, Tail(requestedItems))
       IN IF shippableQuantity > 0
          THEN <<Item(it.productId, shippableQuantity)>> \o rest
          ELSE rest

NoUnit == [reserve |-> <<>>, rows |-> <<>>]

\* history of a batch-mode commit: the order, its packages and the catalog when
\* attemptFulfillment chose batchShipPackages
NoPre == [oid |-> 0]

\* history of a pass of attempts: the orders fulfillPendingOrders loops over (or
\* the one order processOrder attempts), and the stock and the number of Shipment
\* rows when the pass starts
NoPass == [nship |-> -1]

\* shipPackage up to its first await: the mass check and reserveStock's loop
ShipPackageSync(cat, items) ==
  LET totalMass == CalculateTotalMass(cat, items)
      r == ReserveStock(cat, items)
  IN IF totalMass > MAX_PACKAGE_WEIGHT_G
     THEN [ok |-> FALSE, error |-> "ShipmentExceedsCeiling", catalog |-> cat, unit |-> NoUnit]
     ELSE [ok |-> r.ok, error |-> r.error, catalog |-> r.catalog,
           unit |-> [reserve |-> items,
                     rows |-> <<[shippedItems |-> items, totalMassG |-> totalMass]>>]]

\* batchShipPackages: one batch up to its first await. Over-weight packages are
\* skipped, the others are aggregated per product and reserved in one call
BatchAdd(cat, shipmentItems, unit) ==
  LET shipmentMass == CalculateTotalMass(cat, shipmentItems)
  IN IF shipmentMass > MAX_PACKAGE_WEIGHT_G
     THEN unit
     ELSE [reserve |-> MergeShipped(unit.reserve, shipmentItems),
           rows |-> Append(unit.rows, [shippedItems |-> shipmentItems,
                                       totalMassG |-> shipmentMass])]

\* for (const shipmentItems of batch), in order
RECURSIVE BatchCollect(_, _, _)
BatchCollect(cat, batchPkgs, unit) ==
  IF batchPkgs = <<>> THEN unit
  ELSE IF Len(batchPkgs) = 1 THEN BatchAdd(cat, batchPkgs[1], unit)
  ELSE LET h == Len(batchPkgs) \div 2
       IN CHOOSE r \in {BatchCollect(cat, SubSeq(batchPkgs, h + 1, Len(batchPkgs)), first) :
                          first \in {BatchCollect(cat, SubSeq(batchPkgs, 1, h), unit)}} : TRUE

BatchSync(cat, batchPkgs) ==
  LET unit == BatchCollect(cat, batchPkgs, NoUnit)
      r == ReserveStock(cat, unit.reserve)
  IN [ok |-> r.ok, error |-> r.error, catalog |-> r.catalog, unit |-> unit]

\* The synchronous run of attemptFulfillment / fulfillPendingOrders from a resume
\* point to the next await (outcome "await"), to the end of the operation ("done")
\* or to a throw ("fail").  oid: the order whose packages pkgs are being committed;
\* queue: the orders still to attempt after it.
RECURSIVE Advance(_, _, _, _, _)

\* attemptFulfillment(order) once its remaining, shippable items and packages are
\* known; rest: the orders still to attempt after it
AttemptPacked(cat, order, remainingItems, shippableItems, shipments, rest) ==
  IF remainingItems = <<>> \/ shippableItems = <<>>
  THEN Advance(cat, 0, <<>>, FALSE, rest)
  ELSE IF Len(shipments) > BATCH_THRESHOLD
  THEN [Advance(cat, order.orderId, shipments, TRUE, rest)
          EXCEPT !.pre = [oid |-> order.orderId, pkgs |-> shipments,
                          catalog |-> cat, last |-> rest = <<>>]]
  ELSE Advance(cat, order.orderId, shipments, FALSE, rest)

\* (the singleton sets make each value known before the next is computed)
Advance(cat, oid, pkgs, batch, queue) ==
  IF pkgs # <<>>
  THEN IF batch
       THEN LET n == Min(BATCH_SIZE, Len(pkgs))
                r == BatchSync(cat, SubSeq(pkgs, 1, n))
                rest == SubSeq(pkgs, n + 1, Len(pkgs))
            IN IF r.unit.reserve = <<>> THEN Advance(cat, oid, rest, batch, queue)
               ELSE [outcome |-> IF r.ok THEN "await" ELSE "fail", error |-> r.error,
                     catalog |-> r.catalog, oid |-> oid, cur |-> r.unit,
                     pkgs |-> rest, batch |-> batch, queue |-> queue, pre |-> NoPre]
       ELSE LET r == ShipPackageSync(cat, Head(pkgs))
            IN [outcome |-> IF r.ok THEN "await" ELSE "fail", error |-> r.error,
                catalog |-> r.catalog, oid |-> oid, cur |-> r.unit,
                pkgs |-> Tail(pkgs), batch |-> batch, queue |-> queue, pre |-> NoPre]
  ELSE IF queue = <<>>
  THEN [outcome |-> "done", error |-> "none", catalog |-> cat, oid |-> 0, cur |-> NoUnit,
        pkgs |-> <<>>, batch |-> FALSE, queue |-> <<>>, pre |-> NoPre]
  ELSE CHOOSE r \in
         {CHOOSE r2 \in
            {CHOOSE r3 \in
               {AttemptPacked(cat, Head(queue), remainingItems, shippableItems,
                              shipments, Tail(queue)) :
                  shipments \in {PackShipment(cat, shippableItems, MAX_PACKAGE_WEIGHT_G)}} : TRUE :
               shippableItems \in {GetShippableItems(cat, remainingItems)}} : TRUE :
            remainingItems \in {GetRemainingItems(Head(queue))}} : TRUE

(***************************************************************************)
(* State                                                                   *)
(***************************************************************************)
VARIABLES
  catalog,         \* InventoryService.catalog: productId -> [massG, quantityInStock]
  isInitialized,   \* InventoryService.isInitialized
  dbProducts,      \* the products table
  orders,          \* the orders table: orderId -> order entity
  shipments,       \* the shipments table, in insertion order
  pendingOrders,   \* OrderQueueService.pendingOrders: the keys of the cache
  procs,           \* the operations in progress, one record per request slot
  opCount,         \* operations started so far
  unitsRestocked,  \* history: units added to each product by processRestock
  unitsReserved,   \* history: units taken from each product by reserveStock
  probe,           \* input and output of a direct call of one function
  resubmitted      \* history: the order ids enqueueOrder has found existing and overwritten

vars == <<catalog, isInitialized, dbProducts, orders, shipments, pendingOrders,
          procs, opCount, unitsRestocked, unitsReserved, probe, resubmitted>>

Procs == {1, 2}

EmptyMap == [x \in {} |-> 0]

NoProbe == [kind |-> "none"]

\* history: the request a 400 or 401 answer was given to
NoRequest == [endpoint |-> "none"]

IdleProc == [pc |-> "idle", result |-> "none", oid |-> 0, ent |-> NoOrder,
             cur |-> NoUnit, pkgs |-> <<>>, batch |-> FALSE, queue |-> <<>>,
             init |-> <<>>, exists |-> FALSE, found |-> EmptyMap,
             pre |-> NoPre, pass |-> NoPass, req |-> NoRequest]

Finished(result) == [IdleProc EXCEPT !.result = result]

\* the request bodies the model submits
CatalogInputs ==
  { <<[product_id |-> 1, mass_g |-> 700], [product_id |-> 2, mass_g |-> 1000]>>,
    <<[product_id |-> 1, mass_g |-> 700]>>,
    <<[product_id |-> 2, mass_g |-> 2000], [product_id |-> 1, mass_g |-> 1000]>> }

\* orders: one item, two products, or the same product listed twice
OrderLists ==
  {<<Item(p, q)>> : p \in ProductIds, q \in 1..MaxQty}
  \cup {<<Item(1, q1), Item(2, q2)>> : q1 \in 1..MaxQty, q2 \in 1..MaxQty}
  \cup {<<Item(p, 1), Item(p, 1)>> : p \in ProductIds}

\* restocks: one product, or both
RestockLists ==
  {<<Item(p, q)>> : p \in ProductIds, q \in 1..MaxQty}
  \cup {<<Item(1, q), Item(2, q)>> : q \in 1..MaxQty}

\* m with key k set to v (Map.set, or a row written by save)
Put(m, k, v) == [x \in DOMAIN m \cup {k} |-> IF x = k THEN v ELSE m[x]]

\* repository.save(productsToUpdate): the rows of the listed products that are in
\* the catalog take the catalog's values
RECURSIVE SaveProducts(_, _, _)
SaveProducts(db, cat, items) ==
  IF items = <<>> THEN db
  ELSE LET p == Head(items).productId
       IN SaveProducts(IF HasProduct(cat, p) THEN Put(db, p, cat[p]) ELSE db,
                       cat, Tail(items))

\* units of product p in a list of items
RECURSIVE UnitsOf(_, _)
UnitsOf(items, p) ==
  IF items = <<>> THEN 0
  ELSE (IF Head(items).productId = p THEN Head(items).quantity ELSE 0)
       + UnitsOf(Tail(items), p)

\* find({where: [{status: PENDING}, {status: PARTIALLY_FULFILLED}], order: {createdAt: "ASC"}})
RECURSIVE ByCreatedAt(_, _)
ByCreatedAt(tbl, ids) ==
  IF ids = {} THEN <<>>
  ELSE LET first == CHOOSE o \in ids : \A x \in ids : tbl[o].createdAt <= tbl[x].createdAt
       IN <<tbl[first]>> \o ByCreatedAt(tbl, ids \ {first})

FindPendingOrders(tbl) ==
  ByCreatedAt(tbl, {o \in DOMAIN tbl : tbl[o].status \in {"pending", "partially_fulfilled"}})

Init ==
  /\ catalog = EmptyMap
  /\ isInitialized = FALSE
  /\ dbProducts = EmptyMap
  /\ orders = EmptyMap
  /\ shipments = <<>>
  /\ pendingOrders = {}
  /\ procs = [p \in Procs |-> IdleProc]
  /\ opCount = 0
  /\ unitsRestocked = [p \in ProductIds |-> 0]
  /\ unitsReserved = [p \in ProductIds |-> 0]
  /\ probe = NoProbe
  /\ resubmitted = {}

\* a new request takes the lowest free slot
CanStart(p) ==
  /\ procs[p].pc = "idle"
  /\ \A q \in Procs : q < p => procs[q].pc # "idle"
  /\ opCount < MaxOps
  /\ probe = NoProbe

(***************************************************************************)
(* InitCatalog / ResetCatalog                                              *)
(***************************************************************************)
\* initCatalog without its isInitialized check (a variant the idempotence
\* boundary must tell from the code)
StartInitCatalogUnguarded(p, productInfo) ==
  /\ CanStart(p)
  /\ opCount' = opCount + 1
  /\ procs' = [procs EXCEPT ![p] = [IdleProc EXCEPT !.pc = "initFind",
                                                    !.init = productInfo]]
  /\ catalog' = EmptyMap
  /\ UNCHANGED <<isInitialized, dbProducts, orders, shipments, pendingOrders,
                 unitsRestocked, unitsReserved, probe, resubmitted>>

\* initCatalog up to its first findOne: the isInitialized check and catalog.clear()
StartInitCatalog(p, productInfo) ==
  /\ CanStart(p)
  /\ opCount' = opCount + 1
  /\ IF isInitialized
     THEN /\ procs' = [procs EXCEPT ![p] = Finished("AlreadyInitialized")]
          /\ UNCHANGED catalog
     ELSE /\ procs' = [procs EXCEPT ![p] = [IdleProc EXCEPT !.pc = "initFind",
                                                           !.init = productInfo]]
          /\ catalog' = EmptyMap
  /\ UNCHANGED <<isInitialized, dbProducts, orders, shipments, pendingOrders,
                 unitsRestocked, unitsReserved, probe, resubmitted>>

\* repository.findOne({where: {productId}})
InitFind(p) ==
  /\ procs[p].pc = "initFind"
  /\ procs' = [procs EXCEPT ![p].pc = "initSave",
                            ![p].exists = Head(procs[p].init).product_id \in DOMAIN dbProducts]
  /\ UNCHANGED <<catalog, isInitialized, dbProducts, orders, shipments, pendingOrders,
                 opCount, unitsRestocked, unitsReserved, probe, resubmitted>>

\* repository.save(product): an update of the row found, or an insert, which the
\* unique productId refuses when the row has appeared since
InitSave(p) ==
  /\ procs[p].pc = "initSave"
  /\ LET info == Head(procs[p].init) IN
     IF ~procs[p].exists /\ info.product_id \in DOMAIN dbProducts
     THEN /\ procs' = [procs EXCEPT ![p] = Finished("DuplicateProduct")]
          /\ UNCHANGED dbProducts
     ELSE /\ dbProducts' = Put(dbProducts, info.product_id,
                               [massG |-> info.mass_g, quantityInStock |-> 0])
          /\ procs' = [procs EXCEPT ![p].pc = "initSet"]
  /\ UNCHANGED <<catalog, isInitialized, orders, shipments, pendingOrders,
                 opCount, unitsRestocked, unitsReserved, probe, resubmitted>>

\* initCatalog's catalog.set with a unit of stock in the entry (a variant the
\* zero stock of a new catalog must tell from the code)
InitSetSeeding(p) ==
  /\ procs[p].pc = "initSet"
  /\ LET info == Head(procs[p].init) IN
     /\ catalog' = Put(catalog, info.product_id,
                       [massG |-> info.mass_g, quantityInStock |-> 1])
     /\ IF Tail(procs[p].init) = <<>>
        THEN /\ isInitialized' = TRUE
             /\ procs' = [procs EXCEPT ![p] = Finished("ok")]
        ELSE /\ UNCHANGED isInitialized
             /\ procs' = [procs EXCEPT ![p].pc = "initFind",
                                       ![p].init = Tail(procs[p].init)]
  /\ UNCHANGED <<dbProducts, orders, shipments, pendingOrders,
                 opCount, unitsRestocked, unitsReserved, probe, resubmitted>>

\* catalog.set(info.product_id, product), then the next product or the end
InitSet(p) ==
  /\ procs[p].pc = "initSet"
  /\ LET info == Head(procs[p].init) IN
     /\ catalog' = Put(catalog, info.product_id,
                       [massG |-> info.mass_g, quantityInStock |-> 0])
     /\ IF Tail(procs[p].init) = <<>>
        THEN /\ isInitialized' = TRUE
             /\ procs' = [procs EXCEPT ![p] = Finished("ok")]
        ELSE /\ UNCHANGED isInitialized
             /\ procs' = [procs EXCEPT ![p].pc = "initFind",
                                       ![p].init = Tail(procs[p].init)]
  /\ UNCHANGED <<dbProducts, orders, shipments, pendingOrders,
                 opCount, unitsRestocked, unitsReserved, probe, resubmitted>>

\* loadExistingCatalog, started by the constructor and not awaited: the find
LoadFind(p) ==
  /\ procs[p].pc = "loadFind"
  /\ procs' = [procs EXCEPT ![p].pc = "loadApply", ![p].found = dbProducts]
  /\ UNCHANGED <<catalog, isInitialized, dbProducts, orders, shipments, pendingOrders,
                 opCount, unitsRestocked, unitsReserved, probe, resubmitted>>

\* loadExistingCatalog after its find: when rows were found, catalog.clear(), one
\* catalog.set per row and isInitialized = true
LoadApply(p) ==
  /\ procs[p].pc = "loadApply"
  /\ IF procs[p].found # EmptyMap
     THEN /\ catalog' = procs[p].found
          /\ isInitialized' = TRUE
          /\ procs' = [procs EXCEPT ![p] = [Finished("Loaded") EXCEPT
                                               !.found = procs[p].found]]
     ELSE /\ UNCHANGED <<catalog, isInitialized>>
          /\ procs' = [procs EXCEPT ![p] = Finished("NothingToLoad")]
  /\ UNCHANGED <<dbProducts, orders, shipments, pendingOrders,
                 opCount, unitsRestocked, unitsReserved, probe, resubmitted>>

\* resetCatalog without its catalog.clear() (a variant the reset's effect must
\* tell from the code)
ResetCatalogFlagOnly(p) ==
  /\ CanStart(p)
  /\ opCount' = opCount + 1
  /\ isInitialized' = FALSE
  /\ procs' = [procs EXCEPT ![p] = Finished("ok")]
  /\ UNCHANGED <<catalog, dbProducts, orders, shipments, pendingOrders,
                 unitsRestocked, unitsReserved, probe, resubmitted>>

ResetCatalog(p) ==
  /\ CanStart(p)
  /\ opCount' = opCount + 1
  /\ isInitialized' = FALSE
  /\ catalog' = EmptyMap
  /\ procs' = [procs EXCEPT ![p] = Finished("ok")]
  /\ UNCHANGED <<dbProducts, orders, shipments, pendingOrders,
                 unitsRestocked, unitsReserved, probe, resubmitted>>

(***************************************************************************)
(* The commit of packages, shared by ProcessOrder and ProcessRestock       *)
(***************************************************************************)
\* the effect of a synchronous run of process p, run == Advance(...)
Resume(p, run, pass) ==
  \E r \in {run} :
  /\ catalog' = r.catalog
  /\ dbProducts' = IF r.outcome = "await"
                   THEN SaveProducts(dbProducts, r.catalog, r.cur.reserve)
                   ELSE dbProducts
  /\ unitsReserved' = [x \in ProductIds |->
                         unitsReserved[x] + GetAvailableStock(catalog, x)
                                          - GetAvailableStock(r.catalog, x)]
  /\ LET pre == IF r.pre # NoPre
                THEN [oid |-> r.pre.oid, pkgs |-> r.pre.pkgs, catalog |-> r.pre.catalog,
                      last |-> r.pre.last, orders |-> orders, shipments |-> shipments]
                ELSE procs[p].pre
     IN procs' = [procs EXCEPT ![p] =
                    IF r.outcome = "await"
                    THEN [IdleProc EXCEPT !.pc = "insert", !.oid = r.oid, !.cur = r.cur,
                                          !.pkgs = r.pkgs, !.batch = r.batch,
                                          !.queue = r.queue, !.pre = pre,
                                          !.pass = pass]
                    ELSE [Finished(IF r.outcome = "done" THEN "ok" ELSE r.error)
                            EXCEPT !.pre = pre, !.pass = pass]]

ShipmentRows(oid, rows) ==
  [i \in DOMAIN rows |-> [orderId |-> oid, shippedItems |-> rows[i].shippedItems,
                          totalMassG |-> rows[i].totalMassG]]

\* repository.insert(shipmentData), then updateOrderShipment's findOne
InsertShipment(p) ==
  /\ procs[p].pc = "insert"
  /\ shipments' = shipments \o ShipmentRows(procs[p].oid, procs[p].cur.rows)
  /\ IF procs[p].oid \in DOMAIN orders
     THEN procs' = [procs EXCEPT ![p].pc = "updSave",
                                 ![p].ent = UpdatedOrder(orders[procs[p].oid],
                                                         procs[p].cur.reserve)]
     ELSE procs' = [procs EXCEPT ![p] = Finished("OrderNotFound")]
  /\ UNCHANGED <<catalog, isInitialized, dbProducts, orders, pendingOrders,
                 opCount, unitsRestocked, unitsReserved, probe, resubmitted>>

\* updateOrderShipment's repository.save(order)
UpdateSave(p) ==
  /\ procs[p].pc = "updSave"
  /\ orders' = Put(orders, procs[p].oid, procs[p].ent)
  /\ procs' = [procs EXCEPT ![p].pc = "afterUpd"]
  /\ UNCHANGED <<catalog, isInitialized, dbProducts, shipments, pendingOrders,
                 opCount, unitsRestocked, unitsReserved, probe, resubmitted>>

\* updateOrderShipment with pendingOrders.set in both branches of its cache
\* update (a variant the exact pending count must tell from the code)
AfterUpdateAlwaysCaching(p) ==
  /\ procs[p].pc = "afterUpd"
  /\ pendingOrders' = pendingOrders \cup {procs[p].oid}
  /\ Resume(p, Advance(catalog, procs[p].oid, procs[p].pkgs, procs[p].batch,
                       procs[p].queue), procs[p].pass)
  /\ UNCHANGED <<isInitialized, orders, shipments, opCount, unitsRestocked, probe, resubmitted>>

\* updateOrderShipment's cache update, then the next package, the next order or the end
AfterUpdate(p) ==
  /\ procs[p].pc = "afterUpd"
  /\ pendingOrders' = IF procs[p].ent.status = "fulfilled"
                      THEN pendingOrders \ {procs[p].oid}
                      ELSE pendingOrders \cup {procs[p].oid}
  /\ Resume(p, Advance(catalog, procs[p].oid, procs[p].pkgs, procs[p].batch,
                       procs[p].queue), procs[p].pass)
  /\ UNCHANGED <<isInitialized, orders, shipments, opCount, unitsRestocked, probe, resubmitted>>

(***************************************************************************)
(* ProcessOrder                                                            *)
(***************************************************************************)
\* order ids are taken in increasing order: a new order gets the lowest unused id
OrderIdUsed(o) ==
  o \in DOMAIN orders \/ \E q \in Procs : procs[q].pc = "enqSave" /\ procs[q].oid = o

\* processOrder -> enqueueOrder up to its save: findOne and the entity to save
StartProcessOrder(p, orderId, requested) ==
  /\ CanStart(p)
  /\ \A o \in OrderIds : o < orderId => OrderIdUsed(o)
  /\ opCount' = opCount + 1
  /\ procs' = [procs EXCEPT ![p] =
       [IdleProc EXCEPT !.pc = "enqSave", !.oid = orderId,
                        !.ent = EnqueuedOrder(IF orderId \in DOMAIN orders
                                              THEN orders[orderId] ELSE NoOrder,
                                              orderId, requested)]]
  /\ UNCHANGED <<catalog, isInitialized, dbProducts, orders, shipments, pendingOrders,
                 unitsRestocked, unitsReserved, probe, resubmitted>>

\* enqueueOrder's repository.save(order): an update of the row read, or an insert,
\* which the unique orderId refuses when the row has appeared since
EnqueueSave(p) ==
  /\ procs[p].pc = "enqSave"
  /\ LET ent == procs[p].ent IN
     IF ent.createdAt = 0 /\ ent.orderId \in DOMAIN orders
     THEN /\ procs' = [procs EXCEPT ![p] = Finished("DuplicateOrder")]
          /\ UNCHANGED <<orders, resubmitted>>
     ELSE LET saved == IF ent.createdAt = 0
                       THEN [ent EXCEPT !.createdAt = Cardinality(DOMAIN orders) + 1]
                       ELSE ent
          IN /\ orders' = Put(orders, ent.orderId, saved)
             /\ resubmitted' = IF ent.createdAt = 0 THEN resubmitted
                               ELSE resubmitted \cup {ent.orderId}
             /\ procs' = [procs EXCEPT ![p].pc = "afterEnq", ![p].ent = saved]
  /\ UNCHANGED <<catalog, isInitialized, dbProducts, shipments, pendingOrders,
                 opCount, unitsRestocked, unitsReserved, probe>>

\* pendingOrders.set(orderId, order), then attemptFulfillment(orderEntity)
AfterEnqueue(p) ==
  /\ procs[p].pc = "afterEnq"
  /\ pendingOrders' = pendingOrders \cup {procs[p].oid}
  /\ Resume(p, Advance(catalog, 0, <<>>, FALSE, <<procs[p].ent>>),
            [queue |-> <<procs[p].ent>>, catalog |-> catalog, nship |-> Len(shipments)])
  /\ UNCHANGED <<isInitialized, orders, shipments, opCount, unitsRestocked, probe, resubmitted>>

(***************************************************************************)
(* ProcessRestock                                                          *)
(***************************************************************************)
\* inventoryService.processRestock: the in-memory increments and the batched save
ProcessRestockStep(p, restock) ==
  /\ opCount' = opCount + 1
  /\ catalog' = RestockLoop(catalog, restock)
  /\ dbProducts' = SaveProducts(dbProducts, catalog', restock)
  /\ unitsRestocked' = [x \in ProductIds |->
                          unitsRestocked[x] + GetAvailableStock(catalog', x)
                                            - GetAvailableStock(catalog, x)]
  /\ procs' = [procs EXCEPT ![p] = [IdleProc EXCEPT !.pc = "getPending"]]
  /\ UNCHANGED <<isInitialized, orders, shipments, pendingOrders, unitsReserved, resubmitted>>

StartProcessRestock(p, restock) ==
  /\ CanStart(p)
  /\ ProcessRestockStep(p, restock)
  /\ UNCHANGED probe

\* fulfillPendingOrders -> getPendingOrders: the find
GetPendingOrders(p) ==
  /\ procs[p].pc = "getPending"
  /\ procs' = [procs EXCEPT ![p].pc = "afterPending",
                            ![p].queue = FindPendingOrders(orders)]
  /\ UNCHANGED <<catalog, isInitialized, dbProducts, orders, shipments, pendingOrders,
                 opCount, unitsRestocked, unitsReserved, probe, resubmitted>>

\* getPendingOrders' cache refresh, then the loop over the pending orders
AfterGetPending(p) ==
  /\ procs[p].pc = "afterPending"
  /\ pendingOrders' = {procs[p].queue[i].orderId : i \in DOMAIN procs[p].queue}
  /\ Resume(p, Advance(catalog, 0, <<>>, FALSE, procs[p].queue),
            [queue |-> procs[p].queue, catalog |-> catalog, nship |-> Len(shipments)])
  /\ UNCHANGED <<isInitialized, orders, shipments, opCount, unitsRestocked, probe, resubmitted>>

(***************************************************************************)
(* Specifications                                                          *)
(***************************************************************************)
\* the steps of a request in progress
Continue(p) ==
  \/ InitFind(p)
  \/ InitSave(p)
  \/ InitSet(p)
  \/ EnqueueSave(p)
  \/ AfterEnqueue(p)
  \/ GetPendingOrders(p)
  \/ AfterGetPending(p)
  \/ InsertShipment(p)
  \/ UpdateSave(p)
  \/ AfterUpdate(p)

\* catalog administration
Admin(p) ==
  \/ \E productInfo \in CatalogInputs : StartInitCatalog(p, productInfo)
  \/ ResetCatalog(p)

\* the order and restock requests
Request(p) ==
  \/ \E orderId \in OrderIds, requested \in OrderLists :
        StartProcessOrder(p, orderId, requested)
  \/ \E restock \in RestockLists : StartProcessRestock(p, restock)

AllIdle == \A p \in Procs : procs[p].pc = "idle"

\* operations one at a time
NextSeq == Admin(1) \/ Request(1) \/ Continue(1)

SpecSeq == Init /\ [][NextSeq]_vars

\* the sequential runs whose orders name each product once
PlainLists == {requested \in OrderLists : \A i, j \in DOMAIN requested :
                 requested[i].productId = requested[j].productId => i = j}

NextPlain ==
  \/ Admin(1)
  \/ \E orderId \in OrderIds, requested \in PlainLists :
        StartProcessOrder(1, orderId, requested)
  \/ \E restock \in RestockLists : StartProcessRestock(1, restock)
  \/ Continue(1)

\* the rows a products table holds when the service starts on a used store
StoredProducts ==
  {(1 :> [massG |-> 700, quantityInStock |-> 1]) @@ (2 :> [massG |-> 1000, quantityInStock |-> 1])}

\* the state after the constructor's loadExistingCatalog has loaded such a table
InitLoaded ==
  /\ dbProducts \in StoredProducts
  /\ catalog = dbProducts
  /\ isInitialized = TRUE
  /\ orders = EmptyMap
  /\ shipments = <<>>
  /\ pendingOrders = {}
  /\ procs = [p \in Procs |-> IdleProc]
  /\ opCount = 0
  /\ unitsRestocked = [p \in ProductIds |-> 0]
  /\ unitsReserved = [p \in ProductIds |-> 0]
  /\ probe = NoProbe
  /\ resubmitted = {}

\* the sequential runs, from an empty or a used store, in which every operation
\* that has started runs to its end: each await of a handler resolves
SpecLive == (Init \/ InitLoaded) /\ [][NextSeq]_vars /\ WF_vars(Continue(1))

SpecPlain == (Init \/ InitLoaded) /\ [][NextPlain]_vars

\* order and restock requests in two slots, interleaved at the awaits; catalog
\* administration runs alone
Next ==
  \/ AllIdle /\ \E productInfo \in CatalogInputs : StartInitCatalog(1, productInfo)
  \/ \E p \in Procs : isInitialized /\ Request(p)
  \/ \E p \in Procs : Continue(p)

Spec == Init /\ [][Next]_vars

(***************************************************************************)
(* Orders that mix products, one operation at a time                       *)
(***************************************************************************)
\* orders of two products, one of them possibly listed twice
MixedLists ==
  {<<Item(2, 1), Item(1, q)>> : q \in 1..MaxQty}
  \cup {<<Item(2, 1), Item(1, 1), Item(1, 1)>>}

NextMixed ==
  \/ \E productInfo \in CatalogInputs : StartInitCatalog(1, productInfo)
  \/ \E orderId \in OrderIds, requested \in MixedLists :
        StartProcessOrder(1, orderId, requested)
  \/ \E restock \in RestockLists : StartProcessRestock(1, restock)
  \/ Continue(1)

SpecMixed == Init /\ [][NextMixed]_vars

(***************************************************************************)
(* Restocks that name a product the catalog does not hold                  *)
(***************************************************************************)
\* a catalog of product 1 alone
OneProduct == <<[product_id |-> 1, mass_g |-> 700]>>

\* restocks of products 1 and 2, in either order
TwoProductRestocks ==
  {<<Item(1, q1), Item(2, q2)>> : q1 \in 1..MaxQty, q2 \in 1..MaxQty}
  \cup {<<Item(2, q2), Item(1, q1)>> : q1 \in 1..MaxQty, q2 \in 1..MaxQty}

NextRestock ==
  \/ StartInitCatalog(1, OneProduct)
  \/ \E orderId \in OrderIds, requested \in OrderLists :
        StartProcessOrder(1, orderId, requested)
  \/ \E restock \in TwoProductRestocks : StartProcessRestock(1, restock)
  \/ Continue(1)

\* every operation that has started runs to its end: each await resolves
SpecRestock == Init /\ [][NextRestock]_vars /\ WF_vars(Continue(1))

(***************************************************************************)
(* The same restock request sent twice in a row                            *)
(***************************************************************************)
\* the first sending: any restock request; the state before it is kept
ReplayFirst ==
  \E restock \in RestockLists :
    /\ CanStart(1)
    /\ opCount < MaxOps - 1
    /\ ProcessRestockStep(1, restock)
    /\ probe' = [kind |-> "replay", restock |-> restock, sent |-> 1,
                 before |-> [catalog |-> catalog, orders |-> orders],
                 once |-> [catalog |-> catalog, orders |-> orders,
                           shipments |-> shipments]]

\* the second sending, when the first has ended: the same body again; the state
\* the first sending has left is kept
ReplaySecond ==
  /\ probe.kind = "replay" /\ probe.sent = 1
  /\ procs[1].pc = "idle"
  /\ ProcessRestockStep(1, probe.restock)
  /\ probe' = [probe EXCEPT !.sent = 2,
                            !.once = [catalog |-> catalog, orders |-> orders,
                                      shipments |-> shipments]]

NextReplay == NextSeq \/ ReplayFirst \/ ReplaySecond

\* the sequential runs, from an empty or a used store, with one restock request
\* sent twice
SpecReplay == (Init \/ InitLoaded) /\ [][NextReplay]_vars

(***************************************************************************)
(* The HTTP layer: authenticate, then the controller's validation          *)
(***************************************************************************)
\* a JSON value of a request body: its typeof and, for a number, its value
Num(n) == [type |-> "number", value |-> n]
Str == [type |-> "string", value |-> 0]

\* an Authorization header: absent, or a scheme followed by a token that
\* jwt.verify accepts or not
AuthHeaders ==
  {[scheme |-> "absent", verifies |-> FALSE]}
  \cup [scheme : {"Basic ", "Bearer "}, verifies : BOOLEAN]

\* authenticate: 401 without a header that starts with 'Bearer ', 401 when
\* jwt.verify throws, next() otherwise
Authenticate(authorization) ==
  IF authorization.scheme # "Bearer " THEN "401"
  ELSE IF ~authorization.verifies THEN "401"
  ELSE "next"

\* the checks on one item of an order or a restock
ItemCheck(item) ==
  IF \/ item.product_id.type # "number"
     \/ item.quantity.type # "number"
     \/ item.quantity.value <= 0
  THEN "400"
  ELSE IF item.quantity.value > MAX_ITEM_QUANTITY THEN "400"
  ELSE "next"

\* the loop over the items with a check of the first item alone (a variant the
\* rejection of a bad later item must tell from the code)
ValidateItemsFirstOnly(items) ==
  IF items = <<>> THEN "next" ELSE ItemCheck(Head(items))

\* the loop over the items: the first failing item answers
RECURSIVE ValidateItems(_)
ValidateItems(items) ==
  IF items = <<>> THEN "next"
  ELSE IF ItemCheck(Head(items)) # "next" THEN ItemCheck(Head(items))
  ELSE ValidateItems(Tail(items))

\* the body's items as the service receives them
ItemsOf(items) ==
  [i \in DOMAIN items |-> Item(items[i].product_id.value, items[i].quantity.value)]

\* sendResponse(res, status, ...) before any service call
Answer(p, status, req) ==
  /\ CanStart(p)
  /\ opCount' = opCount + 1
  /\ procs' = [procs EXCEPT ![p] = [Finished(status) EXCEPT !.req = req]]
  /\ UNCHANGED <<catalog, isInitialized, dbProducts, orders, shipments, pendingOrders,
                 unitsRestocked, unitsReserved, probe, resubmitted>>

\* authenticate without its checks (a variant the authentication requirement
\* must tell from the code)
RouteOpen(authorization) == "next"

\* route.use(authenticate) in front of every fulfillment route
Route(authorization) == Authenticate(authorization)

HttpInitCatalog(p, authorization, productInfo) ==
  IF Route(authorization) # "next"
  THEN Answer(p, "401", [endpoint |-> "init-catalog", authorization |-> authorization])
  ELSE IF productInfo = <<>>
  THEN Answer(p, "400", [endpoint |-> "init-catalog", body |-> productInfo])
  ELSE StartInitCatalog(p, productInfo)

HttpResetCatalog(p, authorization) ==
  IF Route(authorization) # "next"
  THEN Answer(p, "401", [endpoint |-> "reset-catalog", authorization |-> authorization])
  ELSE ResetCatalog(p)

HttpProcessOrder(p, authorization, order_id, requested) ==
  IF Route(authorization) # "next"
  THEN Answer(p, "401", [endpoint |-> "process-order", authorization |-> authorization])
  ELSE IF requested = <<>> \/ ValidateItems(requested) # "next"
  THEN Answer(p, "400", [endpoint |-> "process-order", body |-> requested])
  ELSE StartProcessOrder(p, order_id, ItemsOf(requested))

HttpProcessRestock(p, authorization, restock) ==
  IF Route(authorization) # "next"
  THEN Answer(p, "401", [endpoint |-> "process-restock", authorization |-> authorization])
  ELSE IF restock = <<>> \/ ValidateItems(restock) # "next"
  THEN Answer(p, "400", [endpoint |-> "process-restock", body |-> restock])
  ELSE StartProcessRestock(p, ItemsOf(restock))

\* an item with a number for its product id and for its quantity
RawItem(p, q) == [product_id |-> Num(p), quantity |-> Num(q)]

\* quantities the controller refuses: zero, negative, above the limit, a string
BadQuantities == {Num(0), Num(-1), Num(MAX_ITEM_QUANTITY + 1), Str}

\* the bodies of the order and restock requests: lists the controller accepts,
\* and lists with a refused quantity in the first or in the second item
RequestBodies ==
  {<<RawItem(1, q)>> : q \in 1..MaxQty}
  \cup {<<RawItem(1, 1), RawItem(2, 1)>>}
  \cup {<<[product_id |-> Num(1), quantity |-> b]>> : b \in BadQuantities}
  \cup {<<RawItem(1, 1), [product_id |-> Num(2), quantity |-> b]>> : b \in BadQuantities}

\* the requests of the sequential runs, each with an Authorization header
NextHttp ==
  \/ \E authorization \in AuthHeaders :
        \/ \E productInfo \in CatalogInputs :
              HttpInitCatalog(1, authorization, productInfo)
        \/ HttpResetCatalog(1, authorization)
        \/ \E order_id \in OrderIds, requested \in RequestBodies :
              HttpProcessOrder(1, authorization, order_id, requested)
        \/ \E restock \in RequestBodies :
              HttpProcessRestock(1, authorization, restock)
  \/ Continue(1)

SpecHttp == Init /\ [][NextHttp]_vars

(***************************************************************************)
(* Catalog administration while an order or a restock is in progress       *)
(***************************************************************************)
\* requests in two slots, interleaved at the awaits, catalog administration
\* included; the orders and restocks are of product 2
NextAdmin ==
  \E p \in Procs :
    \/ \E productInfo \in CatalogInputs : StartInitCatalog(p, productInfo)
    \/ ResetCatalog(p)
    \/ \E q \in 1..MaxQty : StartProcessOrder(p, 1, <<Item(2, q)>>)
    \/ \E q \in 1..MaxQty : StartProcessRestock(p, <<Item(2, q)>>)
    \/ Continue(p)

SpecAdmin == (Init \/ InitLoaded) /\ [][NextAdmin]_vars

(***************************************************************************)
(* Startup and concurrent InitCatalog requests                             *)
(***************************************************************************)
\* the service has just been constructed on an empty or a used store: the load of
\* the existing catalog is in progress in the first slot
InitStartup ==
  /\ dbProducts \in {EmptyMap} \cup StoredProducts
  /\ catalog = EmptyMap
  /\ isInitialized = FALSE
  /\ orders = EmptyMap
  /\ shipments = <<>>
  /\ pendingOrders = {}
  /\ procs = [p \in Procs |-> IF p = 1 THEN [IdleProc EXCEPT !.pc = "loadFind"]
                                        ELSE IdleProc]
  /\ opCount = 0
  /\ unitsRestocked = [p \in ProductIds |-> 0]
  /\ unitsReserved = [p \in ProductIds |-> 0]
  /\ probe = NoProbe
  /\ resubmitted = {}

\* InitCatalog requests in two slots, interleaved at the awaits with each other
\* and with the startup load
NextInit ==
  \E p \in Procs :
    \/ \E productInfo \in CatalogInputs : StartInitCatalog(p, productInfo)
    \/ InitFind(p)
    \/ InitSave(p)
    \/ InitSet(p)
    \/ LoadFind(p)
    \/ LoadApply(p)

SpecInit == InitStartup /\ [][NextInit]_vars

(***************************************************************************)
(* Orders large enough for batchShipPackages, one operation at a time      *)
(***************************************************************************)
LargeQuantities == {BATCH_THRESHOLD + k : k \in 0..MaxQty}

NextBatch ==
  \/ \E productInfo \in CatalogInputs : StartInitCatalog(1, productInfo)
  \/ \E pr \in ProductIds, q \in LargeQuantities :
        StartProcessOrder(1, 1, <<Item(pr, q)>>)
  \/ \E q1 \in LargeQuantities, q2 \in 1..MaxQty :
        StartProcessOrder(1, 1, <<Item(2, q1), Item(1, q2)>>)
  \/ \E pr \in ProductIds, q \in LargeQuantities :
        StartProcessRestock(1, <<Item(pr, q)>>)
  \/ \E q \in LargeQuantities :
        StartProcessRestock(1, <<Item(1, q), Item(2, q)>>)
  \/ Continue(1)

SpecBatch == Init /\ [][NextBatch]_vars

(***************************************************************************)
(* Direct calls of packShipment and of reserveStock                        *)
(***************************************************************************)
\* catalogs of the direct calls: any subset of the products, small masses and stocks
HarnessCatalogs ==
  UNION {[S -> [massG : 1..MaxMass, quantityInStock : 0..MaxQty]] : S \in SUBSET ProductIds}

HarnessItems ==
  SeqsOf({Item(p, q) : p \in ProductIds, q \in 0..MaxQty}, 0, 2)

InitPack ==
  /\ catalog \in HarnessCatalogs
  /\ isInitialized = TRUE
  /\ dbProducts = EmptyMap
  /\ orders = EmptyMap
  /\ shipments = <<>>
  /\ pendingOrders = {}
  /\ procs = [p \in Procs |-> IdleProc]
  /\ opCount = 0
  /\ unitsRestocked = [p \in ProductIds |-> 0]
  /\ unitsReserved = [p \in ProductIds |-> 0]
  /\ resubmitted = {}
  /\ probe \in [kind : {"pack"}, items : HarnessItems, ceiling : 0..MaxCeiling,
                out : {<<>>}, done : {FALSE}]

\* packShipment(items, ceiling) on the catalog
PackProbe ==
  /\ probe.kind = "pack" /\ ~probe.done
  /\ probe' = [probe EXCEPT !.out = PackShipment(catalog, probe.items, probe.ceiling),
                            !.done = TRUE]
  /\ UNCHANGED <<catalog, isInitialized, dbProducts, orders, shipments, pendingOrders,
                 procs, opCount, unitsRestocked, unitsReserved, resubmitted>>

\* the sequential runs, and the direct calls of packShipment
SpecPack == (Init \/ InitPack) /\ [][NextSeq \/ PackProbe]_vars

InitReserve ==
  /\ catalog \in HarnessCatalogs
  /\ isInitialized = TRUE
  /\ dbProducts = EmptyMap
  /\ orders = EmptyMap
  /\ shipments = <<>>
  /\ pendingOrders = {}
  /\ procs = [p \in Procs |-> IdleProc]
  /\ opCount = 0
  /\ unitsRestocked = [p \in ProductIds |-> 0]
  /\ unitsReserved = [p \in ProductIds |-> 0]
  /\ resubmitted = {}
  /\ probe \in [kind : {"reserve"}, items : HarnessItems, before : {EmptyMap},
                ok : {TRUE}, error : {"none"}, done : {FALSE}]

\* reserveStock(items) on the catalog
ReserveProbe ==
  /\ probe.kind = "reserve" /\ ~probe.done
  /\ LET r == ReserveStock(catalog, probe.items) IN
     /\ catalog' = r.catalog
     /\ probe' = [probe EXCEPT !.before = catalog, !.ok = r.ok, !.error = r.error,
                               !.done = TRUE]
  /\ UNCHANGED <<isInitialized, dbProducts, orders, shipments, pendingOrders,
                 procs, opCount, unitsRestocked, unitsReserved, resubmitted>>

SpecReserve == InitReserve /\ [][ReserveProbe]_vars

(***************************************************************************)
(* packShipment turn by turn, on the masses InitCatalog accepts            *)
(***************************************************************************)
\* Math.floor(a / b) for b # 0
FloorDiv(a, b) == IF b > 0 THEN a \div b ELSE (0 - a) \div (0 - b)

\* Math.min(Math.floor(availableWeight / unitWeight), remainingQuantity) where it
\* is > 0, else 0: a unit weight of 0 gives Infinity for availableWeight > 0 and
\* NaN or -Infinity otherwise, and neither of those is > 0
UnitsToAddAnyMass(cat, shipment, w, remainingQuantity, maxWeightG) ==
  LET availableWeight == maxWeightG - CalculateShipmentWeight(cat, shipment) IN
  IF w = 0 THEN (IF availableWeight > 0 THEN remainingQuantity ELSE 0)
  ELSE IF Min(FloorDiv(availableWeight, w), remainingQuantity) > 0
       THEN Min(FloorDiv(availableWeight, w), remainingQuantity)
       ELSE 0

\* one turn of the while (remainingQuantity > 0) loop for a unit weight of any
\* sign: maxUnitsPerShipment is Infinity for weight 0 and negative for a negative
\* weight, so only a weight above the ceiling takes the break
PackTurnAnyMass(cat, item, maxWeightG, st) ==
  IF item.unitWeight > 0 /\ maxWeightG \div item.unitWeight = 0
  THEN [st EXCEPT !.stop = TRUE]
  ELSE LET fits == {i \in DOMAIN st.shipments :
                      UnitsToAddAnyMass(cat, st.shipments[i], item.unitWeight,
                                        st.remainingQuantity, maxWeightG) > 0}
       IN IF fits # {}
          THEN LET i == MinOf(fits)
                   u == UnitsToAddAnyMass(cat, st.shipments[i], item.unitWeight,
                                          st.remainingQuantity, maxWeightG)
               IN [st EXCEPT !.shipments[i] = AddToShipment(@, item.productId, u),
                             !.remainingQuantity = @ - u]
          ELSE LET u == IF item.unitWeight = 0 THEN st.remainingQuantity
                        ELSE Min(FloorDiv(maxWeightG, item.unitWeight),
                                 st.remainingQuantity)
               IN [st EXCEPT !.shipments = Append(@, <<Item(item.productId, u)>>),
                             !.remainingQuantity = @ - u]

\* mass_g is only checked to be a number
AcceptedMasses == (0 - 1)..2

TurnsCatalogs == [ProductIds -> [massG : AcceptedMasses, quantityInStock : {0}]]

TurnsItems == SeqsOf({Item(p, q) : p \in ProductIds, q \in 1..MaxQty}, 1, 2)

InitTurns ==
  /\ catalog \in TurnsCatalogs
  /\ isInitialized = TRUE
  /\ dbProducts = EmptyMap
  /\ orders = EmptyMap
  /\ shipments = <<>>
  /\ pendingOrders = {}
  /\ procs = [p \in Procs |-> IdleProc]
  /\ opCount = 0
  /\ unitsRestocked = [p \in ProductIds |-> 0]
  /\ unitsReserved = [p \in ProductIds |-> 0]
  /\ resubmitted = {}
  /\ probe \in [kind : {"turns"}, items : TurnsItems, ceiling : 1..MaxCeiling,
                todo : {<<>>}, remainingQuantity : {0}, out : {<<>>}, pc : {"start"}]

\* the next item of the for loop, or the return
NextItem(pr, todo) ==
  IF todo = <<>>
  THEN [pr EXCEPT !.todo = <<>>, !.remainingQuantity = 0, !.pc = "done"]
  ELSE [pr EXCEPT !.todo = todo, !.remainingQuantity = Head(todo).quantity,
                  !.pc = "loop"]

\* the call: map, filter and sort
PackBegin ==
  /\ probe.kind = "turns" /\ probe.pc = "start"
  /\ probe' = NextItem(probe, SortHeaviestFirst(ItemsWithWeight(catalog, probe.items)))
  /\ UNCHANGED <<catalog, isInitialized, dbProducts, orders, shipments, pendingOrders,
                 procs, opCount, unitsRestocked, unitsReserved, resubmitted>>

\* one turn of the while loop for the current item (turns are followed while the
\* remaining quantity is at most MaxRemaining)
PackLoopTurn ==
  /\ probe.kind = "turns" /\ probe.pc = "loop"
  /\ probe.remainingQuantity <= MaxRemaining
  /\ \E st \in {PackTurnAnyMass(catalog, Head(probe.todo), probe.ceiling,
                                 [shipments |-> probe.out,
                                  remainingQuantity |-> probe.remainingQuantity,
                                  stop |-> FALSE])} :
       probe' = IF st.stop \/ st.remainingQuantity <= 0
                THEN NextItem([probe EXCEPT !.out = st.shipments], Tail(probe.todo))
                ELSE [probe EXCEPT !.out = st.shipments,
                                   !.remainingQuantity = st.remainingQuantity]
  /\ UNCHANGED <<catalog, isInitialized, dbProducts, orders, shipments, pendingOrders,
                 procs, opCount, unitsRestocked, unitsReserved, resubmitted>>

\* the call runs synchronously to its end: no turn waits for anything
SpecTurns ==
  InitTurns /\ [][PackBegin \/ PackLoopTurn]_vars /\ WF_vars(PackBegin \/ PackLoopTurn)

InitBalanced ==
  /\ catalog \in HarnessCatalogs
  /\ isInitialized = TRUE
  /\ dbProducts = EmptyMap
  /\ orders = EmptyMap
  /\ shipments = <<>>
  /\ pendingOrders = {}
  /\ procs = [p \in Procs |-> IdleProc]
  /\ opCount = 0
  /\ unitsRestocked = [p \in ProductIds |-> 0]
  /\ unitsReserved = [p \in ProductIds |-> 0]
  /\ resubmitted = {}
  /\ probe \in [kind : {"balanced"}, items : HarnessItems, ceiling : 1..MaxCeiling,
                out : {<<>>}, done : {FALSE}]

\* ShipmentStrategyContext.packShipment(items, ceiling) with the strategy set to
\* WeightBalancedStrategy
BalancedProbe ==
  /\ probe.kind = "balanced" /\ ~probe.done
  /\ probe' = [probe EXCEPT !.out = BalancedPackShipment(catalog, probe.items,
                                                         probe.ceiling),
                            !.done = TRUE]
  /\ UNCHANGED <<catalog, isInitialized, dbProducts, orders, shipments, pendingOrders,
                 procs, opCount, unitsRestocked, unitsReserved, resubmitted>>

SpecBalanced == InitBalanced /\ [][BalancedProbe]_vars

(***************************************************************************)
(* Quantities the properties speak about                                   *)
(***************************************************************************)
\* units of product p requested by order o (no entry: zero)
Requested(o, p) == UnitsOf(orders[o].requestedItems, p)

\* units of product p the ledger of order o holds as shipped
Shipped(o, p) == ShippedQuantity(orders[o].shippedItems, p)

\* units of product p in the Shipment records of order o; o = 0: of every order
RECURSIVE ShipmentUnits(_, _, _)
ShipmentUnits(rows, o, p) ==
  IF rows = <<>> THEN 0
  ELSE (IF o = 0 \/ Head(rows).orderId = o THEN UnitsOf(Head(rows).shippedItems, p) ELSE 0)
       + ShipmentUnits(Tail(rows), o, p)

\* the list names no product twice
DistinctProducts(items) ==
  \A i, j \in DOMAIN items : items[i].productId = items[j].productId => i = j

\* no order was resubmitted and no order names a product twice
PlainOrders ==
  /\ resubmitted = {}
  /\ \A o \in DOMAIN orders : DistinctProducts(orders[o].requestedItems)

ReserveErrors == {"InsufficientStock", "ProductNotFound"}

(***************************************************************************)
(* C1                                                                      *)
(***************************************************************************)
\* C1: in every reachable state of the sequential runs (InitCatalog, ProcessOrder
\* with resubmission of an existing order id, ProcessRestock, ResetCatalog), every
\* order has shipped at most the requested quantity of every product.
C1_ShippedWithinRequested ==
  \A o \in DOMAIN orders : \A p \in ProductIds : Shipped(o, p) <= Requested(o, p)

(***************************************************************************)
(* C2                                                                      *)
(***************************************************************************)
\* C2: under every interleaving of concurrent ProcessOrder and ProcessRestock
\* requests the in-memory stock of every product is never negative, and the units
\* reserveStock has taken from a product never exceed the units processRestock
\* has added to it.
C2_NoOversell ==
  \A p \in ProductIds :
    /\ GetAvailableStock(catalog, p) >= 0
    /\ unitsReserved[p] <= unitsRestocked[p]

\* two requests in progress have both reserved units of one product, and its
\* stock is used up
C2_Witness ==
  \E p \in ProductIds :
    /\ \A q \in Procs : procs[q].pc = "insert" /\ UnitsOf(procs[q].cur.reserve, p) > 0
    /\ GetAvailableStock(catalog, p) = 0
    /\ unitsReserved[p] = unitsRestocked[p]

(***************************************************************************)
(* C5                                                                      *)
(***************************************************************************)
AllShippedEqualRequested(o) ==
  \A p \in ProductIds : Requested(o, p) > 0 => Shipped(o, p) = Requested(o, p)

\* C5: in every state of the sequential runs with no operation in progress, the
\* status of every order (whose list names no product twice) matches its
\* quantities: fulfilled iff shipped equals requested for every requested product,
\* partially_fulfilled iff a package has shipped and not all are equal, pending
\* iff no package has shipped.
C5_StatusMatchesQuantities ==
  AllIdle =>
    \A o \in DOMAIN orders :
      DistinctProducts(orders[o].requestedItems) =>
      /\ orders[o].status = "fulfilled" <=> AllShippedEqualRequested(o)
      /\ orders[o].status = "partially_fulfilled"
           <=> (orders[o].totalShipments > 0 /\ ~AllShippedEqualRequested(o))
      /\ orders[o].status = "pending" <=> orders[o].totalShipments = 0

(***************************************************************************)
(* C7                                                                      *)
(***************************************************************************)
\* C7: with concurrent attempts for the same order (two restock passes, or the
\* order's own attempt and a restock pass) and no order resubmitted, the units of
\* a product in the Shipment records of an order never exceed the units the order
\* requests.
C7_ShipmentsWithinRequested ==
  resubmitted = {} =>
    \A o \in DOMAIN orders : \A p \in ProductIds :
      ShipmentUnits(shipments, o, p) <= Requested(o, p)

(***************************************************************************)
(* C8                                                                      *)
(***************************************************************************)
\* C8: once the operations have finished, normally or with an error, every
\* package has all three effects or none: the units taken from the stock of a
\* product are the units in the Shipment records, and the units in the Shipment
\* records of an order are the units its ledger holds as shipped (orders not
\* resubmitted, no product named twice).
C8_PackageAtomic ==
  AllIdle /\ PlainOrders =>
    /\ \A p \in ProductIds : unitsReserved[p] = ShipmentUnits(shipments, 0, p)
    /\ \A o \in DOMAIN orders : \A p \in ProductIds :
         ShipmentUnits(shipments, o, p) = Shipped(o, p)

(***************************************************************************)
(* C9                                                                      *)
(***************************************************************************)
\* C9: a failure of reserveStock for one package (stock changed concurrently;
\* orders not resubmitted, no product named twice) is logged and skipped: no
\* ProcessOrder or ProcessRestock operation ends with the Reserve error.
C9_ReserveFailureSkipped ==
  PlainOrders => \A p \in Procs : procs[p].result \notin ReserveErrors

(***************************************************************************)
(* C3                                                                      *)
(***************************************************************************)
\* C3: every package packShipment returns, for every catalog of positive masses,
\* every list of items and every ceiling, has total mass at most the ceiling; and
\* every Shipment record persisted has totalMassG at most MAX_PACKAGE_WEIGHT_G.
C3_PackageWithinCeiling ==
  /\ (probe.kind = "pack" /\ probe.done) =>
       \A i \in DOMAIN probe.out :
         CalculateShipmentWeight(catalog, probe.out[i]) <= probe.ceiling
  /\ \A i \in DOMAIN shipments : shipments[i].totalMassG <= MAX_PACKAGE_WEIGHT_G

\* packShipment has returned several packages, one of them holding two products
\* and filled to the ceiling
C3_Witness ==
  /\ probe.kind = "pack" /\ probe.done
  /\ Len(probe.out) >= 2
  /\ \E i \in DOMAIN probe.out :
       /\ Len(probe.out[i]) = 2
       /\ CalculateShipmentWeight(catalog, probe.out[i]) = probe.ceiling

(***************************************************************************)
(* C4                                                                      *)
(***************************************************************************)
\* C4: reserveStock is all-or-nothing: when it fails (unknown product or
\* insufficient stock), the stock of every product is what it was before the
\* call, whatever the position of the failing item.
C4_ReserveAllOrNothing ==
  (probe.kind = "reserve" /\ probe.done /\ ~probe.ok) => catalog = probe.before

(***************************************************************************)
(* C10                                                                     *)
(***************************************************************************)
\* shipPackage for one package on the state st: the mass check and reserveStock,
\* the Shipment row, updateOrderShipment; a failure ends the commit
ShipOne(st, pkg) ==
  IF ~st.ok THEN st
  ELSE LET r == ShipPackageSync(st.catalog, pkg) IN
       IF ~r.ok THEN [st EXCEPT !.ok = FALSE, !.catalog = r.catalog]
       ELSE [ok |-> TRUE, catalog |-> r.catalog,
             order |-> UpdatedOrder(st.order, r.unit.reserve),
             shipments |-> st.shipments \o ShipmentRows(st.order.orderId, r.unit.rows)]

\* for (const shipment of shipments) await this.shipPackage(order, shipment)
RECURSIVE ShipAll(_, _)
ShipAll(st, pkgs) ==
  IF pkgs = <<>> THEN st
  ELSE IF Len(pkgs) = 1 THEN ShipOne(st, pkgs[1])
  ELSE LET h == Len(pkgs) \div 2
       IN CHOOSE r \in {ShipAll(mid, SubSeq(pkgs, h + 1, Len(pkgs))) :
                          mid \in {ShipAll(st, SubSeq(pkgs, 1, h))}} : TRUE

\* the state the one-at-a-time commit reaches from the state in which
\* attemptFulfillment chose batchShipPackages
OneAtATime(pre) ==
  ShipAll([ok |-> TRUE, catalog |-> pre.catalog, order |-> pre.orders[pre.oid],
           shipments |-> pre.shipments], pre.pkgs)

\* an operation has ended after committing the packages of its last order with
\* batchShipPackages
BatchCommitted(p) ==
  procs[p].pc = "idle" /\ procs[p].pre # NoPre /\ procs[p].pre.last

\* C10: when the packages of an order (more than BATCH_THRESHOLD) have been
\* committed by batchShipPackages, the stock, the order (shipped items, status,
\* shipment count) and the Shipment records are those the one-at-a-time commit
\* of the same packages with shipPackage reaches.
C10_ChunkedEqualsOneAtATime ==
  \A p \in Procs :
    BatchCommitted(p) =>
      LET one == OneAtATime(procs[p].pre) IN
      /\ catalog = one.catalog
      /\ orders[procs[p].pre.oid] = one.order
      /\ shipments = one.shipments

(***************************************************************************)
(* C6                                                                      *)
(***************************************************************************)
\* units of product pr the order still needs
RemainingUnits(order, pr) == UnitsOf(GetRemainingItems(order), pr)

\* units of product pr in the Shipment records of order o written since the
\* restock pass began
PassUnits(pass, o, pr) ==
  ShipmentUnits(SubSeq(shipments, pass.nship + 1, Len(shipments)), o, pr)

\* the pass attempts the orders in ascending creation order, an order's packages
\* before any later order
AscendingAttempts(p) ==
  /\ \A i, j \in DOMAIN procs[p].pass.queue :
       i < j => procs[p].pass.queue[i].createdAt < procs[p].pass.queue[j].createdAt
  /\ procs[p].pc \in {"insert", "updSave", "afterUpd"} =>
       \A i \in DOMAIN procs[p].queue :
         orders[procs[p].oid].createdAt < procs[p].queue[i].createdAt

\* A (earlier) and B (later) of the pass both need product pr, no order before A
\* needs it, and the stock the restock has left of pr is no more than A needs
WaitForSame(pass, i, j, pr) ==
  /\ i < j
  /\ GetAvailableStock(pass.catalog, pr) > 0
  /\ GetAvailableStock(pass.catalog, pr) <= RemainingUnits(pass.queue[i], pr)
  /\ RemainingUnits(pass.queue[j], pr) > 0
  /\ \A k \in 1..(i - 1) : RemainingUnits(pass.queue[k], pr) = 0

\* C6: a restock pass attempts the unfulfilled orders in ascending creation
\* order, every package of an earlier order before any later order; and when A
\* was enqueued before B, both wait for the same product and the restock
\* supplies no more than A still needs, all the units go to A and none to B.
C6_FifoRestock ==
  \A p \in Procs :
    procs[p].pass # NoPass =>
      /\ AscendingAttempts(p)
      /\ \A i, j \in DOMAIN procs[p].pass.queue : \A pr \in ProductIds :
           WaitForSame(procs[p].pass, i, j, pr) =>
             /\ PassUnits(procs[p].pass, procs[p].pass.queue[j].orderId, pr) = 0
             /\ procs[p].pc = "idle" =>
                  PassUnits(procs[p].pass, procs[p].pass.queue[i].orderId, pr)
                    = GetAvailableStock(procs[p].pass.catalog, pr)

(***************************************************************************)
(* C11                                                                     *)
(***************************************************************************)
\* units of product p in a list of packages
RECURSIVE PackagedUnits(_, _)
PackagedUnits(pkgs, p) ==
  IF pkgs = <<>> THEN 0 ELSE UnitsOf(Head(pkgs), p) + PackagedUnits(Tail(pkgs), p)

\* every item names a product of the catalog whose unit mass is at most the ceiling
KnownAndFeasible(cat, items, maxWeightG) ==
  \A i \in DOMAIN items :
    /\ HasProduct(cat, items[i].productId)
    /\ cat[items[i].productId].massG <= maxWeightG

\* C11: for every list of items that names distinct products of the catalog, each
\* of positive unit mass at most the ceiling, the packages packShipment returns
\* hold, product by product, exactly the quantities of the list.
C11_PackingComplete ==
  (/\ probe.kind = "pack" /\ probe.done
   /\ DistinctProducts(probe.items)
   /\ KnownAndFeasible(catalog, probe.items, probe.ceiling)) =>
    \A p \in ProductIds : PackagedUnits(probe.out, p) = UnitsOf(probe.items, p)

\* packShipment has split the units of one product over two packages, one of
\* them shared with the other product
C11_Witness ==
  /\ probe.kind = "pack" /\ probe.done
  /\ DistinctProducts(probe.items)
  /\ KnownAndFeasible(catalog, probe.items, probe.ceiling)
  /\ Len(probe.items) = 2
  /\ \E p \in ProductIds, i, j \in DOMAIN probe.out :
       /\ i # j
       /\ UnitsOf(probe.out[i], p) > 0 /\ UnitsOf(probe.out[j], p) > 0
       /\ Len(probe.out[j]) = 2

(***************************************************************************)
(* C12                                                                     *)
(***************************************************************************)
\* units of product pr shipped in the pass to the orders before the i-th
RECURSIVE PassUnitsBefore(_, _, _)
PassUnitsBefore(pass, i, pr) ==
  IF i <= 1 THEN 0
  ELSE PassUnits(pass, pass.queue[i - 1].orderId, pr) + PassUnitsBefore(pass, i - 1, pr)

\* stock of pr when the pass reaches its i-th order
StockBefore(pass, i, pr) ==
  GetAvailableStock(pass.catalog, pr) - PassUnitsBefore(pass, i, pr)

\* the attempt for the i-th order of the pass has shipped, of product pr, the
\* smaller of the order's remainder and the stock, the stock has gone down by
\* that, and so has the order's remainder
ShipsMaximum(pass, i, pr) ==
  LET before == pass.queue[i]
      shipped == PassUnits(pass, before.orderId, pr)
  IN /\ shipped = Min(RemainingUnits(before, pr), StockBefore(pass, i, pr))
     /\ StockBefore(pass, i + 1, pr) = StockBefore(pass, i, pr) - shipped
     /\ RemainingUnits(orders[before.orderId], pr) = RemainingUnits(before, pr) - shipped

\* C12: when a sequential operation has ended, every attempt of its pass (the
\* order's own attempt in ProcessOrder, one attempt per pending order in
\* ProcessRestock) has shipped, for every product of the order's remainder whose
\* unit mass is at most the ceiling, min(remaining, stock before the attempt);
\* the stock has decreased by exactly that and the remainder is the previous
\* remainder minus the shipped quantity.
C12_ShipsMaximumAvailable ==
  (procs[1].pc = "idle" /\ procs[1].pass # NoPass) =>
    LET pass == procs[1].pass IN
    /\ \A i \in DOMAIN pass.queue : \A pr \in ProductIds :
         (/\ RemainingUnits(pass.queue[i], pr) > 0
          /\ HasProduct(pass.catalog, pr)
          /\ pass.catalog[pr].massG <= MAX_PACKAGE_WEIGHT_G) => ShipsMaximum(pass, i, pr)
    /\ \A pr \in ProductIds :
         GetAvailableStock(catalog, pr) = StockBefore(pass, Len(pass.queue) + 1, pr)

(***************************************************************************)
(* C13                                                                     *)
(***************************************************************************)
\* units of product pr that the unfulfilled orders of the ledger still need
RECURSIVE QueuedDemand(_, _)
QueuedDemand(queue, pr) ==
  IF queue = <<>> THEN 0
  ELSE RemainingUnits(Head(queue), pr) + QueuedDemand(Tail(queue), pr)

\* every product order o requests is in the catalog with unit mass at most the ceiling
Fulfillable(o) ==
  \A i \in DOMAIN orders[o].requestedItems :
    LET pr == orders[o].requestedItems[i].productId
    IN HasProduct(catalog, pr) /\ catalog[pr].massG <= MAX_PACKAGE_WEIGHT_G

\* a ProcessRestock has added its units and is about to retry the pending orders;
\* order o is not fulfilled, names no product twice, can be fulfilled, and the
\* stock covers what every unfulfilled order still needs
EnoughRestocked(o) ==
  /\ procs[1].pc = "getPending"
  /\ o \in DOMAIN orders
  /\ orders[o].status # "fulfilled"
  /\ DistinctProducts(orders[o].requestedItems)
  /\ Fulfillable(o)
  /\ \A pr \in ProductIds :
       GetAvailableStock(catalog, pr) >= QueuedDemand(FindPendingOrders(orders), pr)

\* C13: every order whose requested products (each named once) are all in the
\* catalog with unit mass at most the ceiling, resubmitted or not, is eventually
\* fulfilled once a ProcessRestock has supplied enough units, when every operation
\* runs to its end.
C13_QueuedEventuallyFulfilled ==
  \A o \in OrderIds :
    EnoughRestocked(o) ~> (o \in DOMAIN orders /\ orders[o].status = "fulfilled")

(***************************************************************************)
(* C14                                                                     *)
(***************************************************************************)
\* number of Shipment records of order o
ShipmentsOf(rows, o) == Cardinality({i \in DOMAIN rows : rows[i].orderId = o})

\* C14: in the sequential runs, once an order is fulfilled every step leaves it
\* fulfilled, leaves its requested and shipped items as they are, and creates no
\* further Shipment record for it.
C14_FulfilledTerminal ==
  [][\A o \in DOMAIN orders :
       orders[o].status = "fulfilled" =>
         /\ o \in DOMAIN orders'
         /\ orders'[o].status = "fulfilled"
         /\ orders'[o].requestedItems = orders[o].requestedItems
         /\ orders'[o].shippedItems = orders[o].shippedItems
         /\ ShipmentsOf(shipments', o) = ShipmentsOf(shipments, o)]_vars

(***************************************************************************)
(* C15                                                                     *)
(***************************************************************************)
\* C15: in the sequential runs, an InitCatalog call made when the catalog is
\* initialized (a first call has succeeded and no ResetCatalog has followed) ends
\* at once with AlreadyInitialized and leaves the catalog as it was: the same
\* products, masses and stock (restocks made in between included), the products
\* table untouched and the initialized flag still true.
C15_SecondInitRejected ==
  [][(isInitialized /\ \E productInfo \in CatalogInputs : StartInitCatalog(1, productInfo)) =>
       /\ procs'[1].pc = "idle"
       /\ procs'[1].result = "AlreadyInitialized"
       /\ catalog' = catalog
       /\ dbProducts' = dbProducts
       /\ isInitialized']_vars

\* a second InitCatalog has just been refused on a catalog that holds restocked units
C15_Witness ==
  /\ procs[1].pc = "idle"
  /\ procs[1].result = "AlreadyInitialized"
  /\ isInitialized
  /\ \E p \in ProductIds : unitsRestocked[p] > 0 /\ GetAvailableStock(catalog, p) > 0

(***************************************************************************)
(* C16                                                                     *)
(***************************************************************************)
\* the catalog an InitCatalog call with this request body builds
RECURSIVE CatalogOf(_)
CatalogOf(productInfo) ==
  IF productInfo = <<>> THEN EmptyMap
  ELSE Put(CatalogOf(SubSeq(productInfo, 1, Len(productInfo) - 1)),
           productInfo[Len(productInfo)].product_id,
           [massG |-> productInfo[Len(productInfo)].mass_g, quantityInStock |-> 0])

\* two operations that overlapped have both ended: both slots show a result, no
\* slot has been used twice, and a load that found rows found the rows the store
\* held at startup
TwoOverlapped ==
  /\ AllIdle
  /\ \A p \in Procs : procs[p].result # "none"
  /\ opCount = Cardinality({p \in Procs : procs[p].result \notin {"Loaded", "NothingToLoad"}})
  /\ \A p \in Procs : procs[p].result = "Loaded" => procs[p].found \in StoredProducts

\* C16: when two InitCatalog calls, or an InitCatalog call and the startup load,
\* have overlapped, at most one of them has founded the catalog, the other has
\* failed with AlreadyInitialized (or found nothing to load), and the catalog
\* holds exactly one founding list: the products and masses of one request body
\* with stock 0, or the rows loaded from the store.
C16_FoundedOnce ==
  TwoOverlapped =>
    /\ Cardinality({p \in Procs : procs[p].result \in {"ok", "Loaded"}}) <= 1
    /\ \A p \in Procs :
         procs[p].result \in {"ok", "Loaded", "AlreadyInitialized", "NothingToLoad"}
    /\ catalog \in {CatalogOf(productInfo) : productInfo \in CatalogInputs}
                    \cup StoredProducts \cup {EmptyMap}

(***************************************************************************)
(* C17                                                                     *)
(***************************************************************************)
\* the order enqueueOrder is about to save, or has saved, is the Enqueue of
\* (orderId, requested): a new id gives a pending order with no shipped items and
\* shipment count 0, an existing id has its requested items replaced and its
\* status set to pending
CreatedOrReset(order, orderId, requested, isNew) ==
  /\ order.orderId = orderId
  /\ order.requestedItems = requested
  /\ order.status = "pending"
  /\ isNew => (order.shippedItems = <<>> /\ order.totalShipments = 0)

\* C17: in the sequential runs, the order that ProcessOrder's enqueueOrder builds
\* from its request and the row the ledger holds right after its save, before
\* the attempt, are the created or reset order.
C17_EnqueueCreatesOrResets ==
  [][/\ \A orderId \in OrderIds, requested \in OrderLists :
          StartProcessOrder(1, orderId, requested) =>
            CreatedOrReset(procs'[1].ent, orderId, requested, orderId \notin DOMAIN orders)
     /\ EnqueueSave(1) =>
          /\ procs'[1].pc = "afterEnq"
          /\ CreatedOrReset(orders'[procs[1].oid], procs[1].oid,
                            procs[1].ent.requestedItems, procs[1].oid \notin DOMAIN orders)]_vars

\* enqueueOrder has just saved an order that existed, was fulfilled with a
\* shipment, and now is pending with another list
C17_Witness ==
  /\ procs[1].pc = "afterEnq"
  /\ procs[1].oid \in resubmitted
  /\ orders[procs[1].oid].status = "pending"
  /\ orders[procs[1].oid].totalShipments > 0
  /\ \E pr \in ProductIds : Shipped(procs[1].oid, pr) > 0 /\ Requested(procs[1].oid, pr) = 0

(***************************************************************************)
(* C18                                                                     *)
(***************************************************************************)
\* C18: in the sequential runs, the save of enqueueOrder for an order id that
\* exists leaves the order with no shipped items, and leaves the stock of every
\* product as it is (the units of the earlier shipments are not given back).
C18_ReenqueueDiscardsShipped ==
  [][(EnqueueSave(1) /\ procs[1].oid \in DOMAIN orders) =>
       /\ orders'[procs[1].oid].shippedItems = <<>>
       /\ catalog' = catalog
       /\ dbProducts' = dbProducts]_vars

(***************************************************************************)
(* C19                                                                     *)
(***************************************************************************)
\* the list names a product the catalog does not hold, or one whose unit mass
\* exceeds the ceiling
NamesInvalidProduct(cat, items) ==
  \E i \in DOMAIN items :
    \/ ~HasProduct(cat, items[i].productId)
    \/ cat[items[i].productId].massG > MAX_PACKAGE_WEIGHT_G

\* C19: in the sequential runs, a ProcessOrder on an initialized catalog whose
\* list names an unknown product or a product over the ceiling has been rejected
\* before enqueueOrder saves anything: its save step stores no order and ends
\* the operation with an error, and stock and Shipment records are untouched.
C19_ValidationPrecedesMutation ==
  [][(/\ EnqueueSave(1)
      /\ isInitialized
      /\ NamesInvalidProduct(catalog, procs[1].ent.requestedItems)) =>
       /\ orders' = orders
       /\ procs'[1].pc = "idle" /\ procs'[1].result \notin {"ok", "none"}
       /\ UNCHANGED <<catalog, dbProducts, shipments>>]_vars

(***************************************************************************)
(* C20                                                                     *)
(***************************************************************************)
\* product pr of the catalog weighs more than a package may
OverCeiling(cat, pr) == HasProduct(cat, pr) /\ cat[pr].massG > MAX_PACKAGE_WEIGHT_G

\* the shippable items of the only order of a pass
PassShippable(pass) ==
  GetShippableItems(pass.catalog, GetRemainingItems(pass.queue[1]))

\* the pass has one order, and its shippable items hold a product over the
\* ceiling together with a product that fits
MixedAttempt(pass) ==
  /\ pass # NoPass
  /\ Len(pass.queue) = 1
  /\ \E pr \in ProductIds :
       UnitsOf(PassShippable(pass), pr) > 0 /\ OverCeiling(pass.catalog, pr)
  /\ \E pr \in ProductIds :
       UnitsOf(PassShippable(pass), pr) > 0 /\ ~OverCeiling(pass.catalog, pr)

\* C20: when a sequential operation has ended whose one attempt had, among its
\* shippable items, a product over the ceiling together with products that fit
\* and are in stock, the operation has ended without error, every product that
\* fits has shipped in its full shippable quantity, no Shipment record of the
\* attempt holds the product over the ceiling, and that product's stock is
\* unchanged.
C20_InfeasibleItemSkipped ==
  (procs[1].pc = "idle" /\ MixedAttempt(procs[1].pass)) =>
    LET pass == procs[1].pass
        o == pass.queue[1].orderId
    IN /\ procs[1].result = "ok"
       /\ \A pr \in ProductIds :
            IF OverCeiling(pass.catalog, pr)
            THEN /\ PassUnits(pass, o, pr) = 0
                 /\ GetAvailableStock(catalog, pr) = GetAvailableStock(pass.catalog, pr)
            ELSE PassUnits(pass, o, pr) = UnitsOf(PassShippable(pass), pr)

(***************************************************************************)
(* C21                                                                     *)
(***************************************************************************)
\* the list names a product of the catalog and a product that is not in it
MixesKnownAndUnknown(cat, restock) ==
  /\ \E i \in DOMAIN restock : HasProduct(cat, restock[i].productId)
  /\ \E i \in DOMAIN restock : ~HasProduct(cat, restock[i].productId)

\* the step has added each known entry to its product, in memory and in the
\* products table, has created no product, and goes on to the pending orders
RestockApplied(restock) ==
  /\ DOMAIN catalog' = DOMAIN catalog
  /\ DOMAIN dbProducts' = DOMAIN dbProducts
  /\ \A pr \in DOMAIN catalog :
       /\ catalog'[pr].quantityInStock =
            catalog[pr].quantityInStock + UnitsOf(restock, pr)
       /\ catalog'[pr].massG = catalog[pr].massG
       /\ UnitsOf(restock, pr) > 0 => dbProducts'[pr] = catalog'[pr]
  /\ procs'[1].pc = "getPending"
  /\ procs'[1].result = "none"

ReplayedTwice ==
  /\ probe.kind = "replay" /\ probe.sent = 2
  /\ procs[1].pc = "idle"

\* no unfulfilled order of the ledger tbl has units of product pr left to ship
NoOrderWaitingFor(tbl, pr) ==
  \A o \in DOMAIN tbl :
    tbl[o].status \in {"pending", "partially_fulfilled"}
      => RemainingUnits(tbl[o], pr) = 0

C23_RestockIdempotent ==
  ReplayedTwice =>
    /\ \A pr \in ProductIds :
         GetAvailableStock(catalog, pr) = GetAvailableStock(probe.once.catalog, pr)
    /\ orders = probe.once.orders
    /\ shipments = probe.once.shipments

(***************************************************************************)
(* C24                                                                     *)
(***************************************************************************)
InitPcs == {"initFind", "initSave", "initSet"}

\* C24: in the sequential runs, a ResetCatalog step leaves the catalog not
\* initialized and the available stock of every product id at 0, and leaves the
\* orders and the Shipment records as they were; an InitCatalog called while
\* the catalog is not initialized is not rejected, and an InitCatalog that ends
\* ends without error.
C24_ResetClearsOnlyCatalog ==
  [][/\ ResetCatalog(1) =>
          /\ ~isInitialized'
          /\ \A pr \in ProductIds : GetAvailableStock(catalog', pr) = 0
          /\ orders' = orders
          /\ shipments' = shipments
     /\ \A productInfo \in CatalogInputs :
          (~isInitialized /\ StartInitCatalog(1, productInfo))
            => procs'[1].pc = "initFind"
     /\ (procs[1].pc \in InitPcs /\ procs'[1].pc = "idle")
          => procs'[1].result = "ok"]_vars

\* from a loaded store: product 2 has shipped, then the catalog was reset and
\* initialized again (product 1's stock is 0 though none of it was reserved),
\* and the orders and Shipment records are still there
C24_Witness ==
  /\ procs[1].pc = "idle" /\ procs[1].result = "ok"
  /\ isInitialized
  /\ shipments # <<>> /\ orders # EmptyMap
  /\ unitsReserved[1] = 0 /\ unitsRestocked[1] = 0
  /\ dbProducts \notin StoredProducts
  /\ HasProduct(catalog, 1)
  /\ \A pr \in ProductIds : GetAvailableStock(catalog, pr) = 0

(***************************************************************************)
(* C25                                                                     *)
(***************************************************************************)
\* the list without its last entry
Front(sq) == SubSeq(sq, 1, Len(sq) - 1)

\* C25: in the sequential runs, from an empty or a used store, the step that
\* ends an InitCatalog without error leaves the catalog marked initialized and
\* holding exactly the products of the request's list, each with its listed
\* mass and quantityInStock = 0, whatever stock the products table held.
C25_InitNeverSeedsStock ==
  [][(procs[1].pc \in InitPcs /\ procs'[1].pc = "idle" /\ procs'[1].result = "ok")
       => /\ isInitialized'
          /\ \E productInfo \in CatalogInputs :
               /\ procs[1].init = <<productInfo[Len(productInfo)]>>
               /\ catalog = CatalogOf(Front(productInfo))
               /\ catalog' = CatalogOf(productInfo)]_vars

\* from a loaded store, after a reset: the catalog has been initialized with
\* product 1 alone, whose stored stock of 1 is now 0 though none was reserved,
\* while the table still holds product 2 with its stock
C25_Witness ==
  /\ procs[1].pc = "idle" /\ procs[1].result = "ok"
  /\ isInitialized
  /\ DOMAIN catalog = {1} /\ catalog[1].quantityInStock = 0
  /\ unitsRestocked = [pr \in ProductIds |-> 0]
  /\ unitsReserved = [pr \in ProductIds |-> 0]
  /\ DOMAIN dbProducts = {1, 2}
  /\ dbProducts[1].quantityInStock = 0 /\ dbProducts[2].quantityInStock = 1

(***************************************************************************)
(* C26                                                                     *)
(***************************************************************************)
\* the steps of a ProcessOrder or a ProcessRestock in progress
ProcessingPcs == {"enqSave", "afterEnq", "getPending", "afterPending",
                  "insert", "updSave", "afterUpd"}

\* C26: in the sequential runs, a ProcessOrder or a ProcessRestock called while
\* the catalog is not initialized ends at once with CatalogNotInitialized, and
\* while the catalog is not initialized no step of such an operation changes
\* the orders, the catalog or the products table.
C26_InitializedBeforeProcessing ==
  [][~isInitialized =>
       /\ ((\E orderId \in OrderIds, requested \in OrderLists :
               StartProcessOrder(1, orderId, requested))
            \/ (\E restock \in RestockLists : StartProcessRestock(1, restock)))
           => (procs'[1].pc = "idle" /\ procs'[1].result = "CatalogNotInitialized")
       /\ procs[1].pc \in ProcessingPcs
           => (orders' = orders /\ catalog' = catalog /\ dbProducts' = dbProducts)]_vars

(***************************************************************************)
(* C27                                                                     *)
(***************************************************************************)
\* C27: every order of the ledger has requested items with quantity > 0 and
\* names no product twice.
C27_StoredOrdersWellFormed ==
  \A o \in DOMAIN orders :
    /\ \A i \in DOMAIN orders[o].requestedItems :
         orders[o].requestedItems[i].quantity > 0
    /\ DistinctProducts(orders[o].requestedItems)

(***************************************************************************)
(* C28                                                                     *)
(***************************************************************************)
\* a package: not empty, quantities > 0, each product on one line
WellFormedPackage(items) ==
  /\ items # <<>>
  /\ \A i \in DOMAIN items : items[i].quantity > 0
  /\ DistinctProducts(items)

\* C28: every package a direct call of packShipment has returned, every package
\* an operation holds to ship, and every Shipment record written is not empty,
\* lists only quantities > 0 and lists each product id on one line.
C28_PackagesWellFormed ==
  /\ (probe.kind = "pack" /\ probe.done)
       => \A k \in DOMAIN probe.out : WellFormedPackage(probe.out[k])
  /\ \A p \in Procs : \A k \in DOMAIN procs[p].pkgs :
       WellFormedPackage(procs[p].pkgs[k])
  /\ \A i \in DOMAIN shipments : WellFormedPackage(shipments[i].shippedItems)

\* packShipment was called with a list that names a product on two lines, and
\* has put the units of both lines on one line of one package
C28_Witness ==
  /\ probe.kind = "pack" /\ probe.done
  /\ Len(probe.items) = 2
  /\ probe.items[1].productId = probe.items[2].productId
  /\ probe.items[1].quantity > 0 /\ probe.items[2].quantity > 0
  /\ \E k \in DOMAIN probe.out :
       probe.out[k] = <<Item(probe.items[1].productId,
                             probe.items[1].quantity + probe.items[2].quantity)>>

(***************************************************************************)
(* C29                                                                     *)
(***************************************************************************)
\* some item has a quantity that is not a number, is not positive or is above
\* 10,000,000
HasInvalidQuantity(items) ==
  \E i \in DOMAIN items :
    \/ items[i].quantity.type # "number"
    \/ items[i].quantity.value <= 0
    \/ items[i].quantity.value > 10000000

\* the step has answered with the status and has touched neither the catalog,
\* the products table, the orders nor the Shipment records
AnsweredOnly(status) ==
  /\ procs'[1].pc = "idle" /\ procs'[1].result = status
  /\ UNCHANGED <<catalog, isInitialized, dbProducts, orders, shipments, pendingOrders>>

Authenticated == [scheme |-> "Bearer ", verifies |-> TRUE]

\* C29: an authenticated process-order or process-restock request in which some
\* item has a quantity that is not a number, is not positive or is above
\* 10,000,000 is answered 400 in the step that receives it, with no order
\* stored and no stock changed, wherever the item stands in the list; and no
\* order of the ledger ever holds such a quantity.
C29_InvalidQuantityRejected ==
  /\ [][\A body \in RequestBodies :
          (/\ HasInvalidQuantity(body)
           /\ \/ \E order_id \in OrderIds :
                    HttpProcessOrder(1, Authenticated, order_id, body)
              \/ HttpProcessRestock(1, Authenticated, body))
            => AnsweredOnly("400")]_vars
  /\ [](\A o \in DOMAIN orders : \A i \in DOMAIN orders[o].requestedItems :
          orders[o].requestedItems[i].quantity \in 1..MAX_ITEM_QUANTITY)

\* an order whose first item could have shipped and whose second item asks for
\* more than the limit has been answered 400, and nothing is in the ledger
C29_Witness ==
  /\ procs[1].pc = "idle" /\ procs[1].result = "400"
  /\ procs[1].req.endpoint = "process-order"
  /\ Len(procs[1].req.body) = 2
  /\ ItemCheck(procs[1].req.body[1]) = "next"
  /\ procs[1].req.body[2].quantity = Num(MAX_ITEM_QUANTITY + 1)
  /\ GetAvailableStock(catalog, 1) > 0
  /\ orders = EmptyMap

(***************************************************************************)
(* C30                                                                     *)
(***************************************************************************)
\* C30: a request to a fulfillment route whose Authorization header is absent,
\* does not start with 'Bearer ' or carries a token that does not verify is
\* answered 401 in the step that receives it and touches neither the catalog,
\* the products table, the orders nor the Shipment records.
C30_AuthenticationRequired ==
  [][\A authorization \in AuthHeaders \ {Authenticated} :
       (\/ \E productInfo \in CatalogInputs :
              HttpInitCatalog(1, authorization, productInfo)
        \/ HttpResetCatalog(1, authorization)
        \/ \E order_id \in OrderIds, requested \in RequestBodies :
              HttpProcessOrder(1, authorization, order_id, requested)
        \/ \E restock \in RequestBodies :
              HttpProcessRestock(1, authorization, restock))
         => AnsweredOnly("401")]_vars

\* a process-order request with a Bearer token that does not verify has been
\* answered 401 while the catalog had stock
C30_Witness ==
  /\ procs[1].pc = "idle" /\ procs[1].result = "401"
  /\ procs[1].req.endpoint = "process-order"
  /\ procs[1].req.authorization = [scheme |-> "Bearer ", verifies |-> FALSE]
  /\ isInitialized
  /\ \E pr \in ProductIds : GetAvailableStock(catalog, pr) > 0

(***************************************************************************)
(* C31                                                                     *)
(***************************************************************************)
\* the packages the next synchronous run of operation p checks the mass of
NextToCommit(p) ==
  IF procs[p].batch
  THEN SubSeq(procs[p].pkgs, 1, Min(BATCH_SIZE, Len(procs[p].pkgs)))
  ELSE SubSeq(procs[p].pkgs, 1, Min(1, Len(procs[p].pkgs)))

\* C31: in every run, catalog administration interleaved with passes included,
\* no operation has ended with 'Shipment exceeds maximum weight', and whenever
\* an operation is about to commit its next package (or batch of packages), the
\* mass the catalog gives each of them is within the ceiling.
C31_CeilingCheckUnreachable ==
  \A p \in Procs :
    /\ procs[p].result # "ShipmentExceedsCeiling"
    /\ procs[p].pc = "afterUpd"
         => \A k \in DOMAIN NextToCommit(p) :
              CalculateTotalMass(catalog, NextToCommit(p)[k]) <= MAX_PACKAGE_WEIGHT_G

(***************************************************************************)
(* C32                                                                     *)
(***************************************************************************)
\* C32: with WeightBalancedStrategy as the strategy, for every list of items
\* with positive quantities that names distinct products of the catalog, each of
\* unit mass at most the ceiling, every package returned has mass at most the
\* ceiling and the packages hold, product by product, the quantities of the list.
C32_BalancedPacksEverything ==
  (/\ probe.kind = "balanced" /\ probe.done
   /\ DistinctProducts(probe.items)
   /\ \A i \in DOMAIN probe.items : probe.items[i].quantity > 0
   /\ KnownAndFeasible(catalog, probe.items, probe.ceiling)) =>
    /\ \A i \in DOMAIN probe.out :
         CalculateShipmentWeight(catalog, probe.out[i]) <= probe.ceiling
    /\ \A p \in ProductIds : PackagedUnits(probe.out, p) = UnitsOf(probe.items, p)

(***************************************************************************)
(* C33                                                                     *)
(***************************************************************************)
\* the lines of the list all name product p, which the catalog holds with a
\* unit mass of at most the ceiling
SingleProduct(cat, items, p, maxWeightG) ==
  /\ items # <<>>
  /\ \A i \in DOMAIN items : items[i].productId = p
  /\ HasProduct(cat, p)
  /\ cat[p].massG <= maxWeightG

\* C33: in the packages packShipment returns, for any package i created before
\* a package j, the ceiling minus the mass of i is smaller than the unit mass of
\* the product on the first line of j; and for a list of one product of unit
\* mass m <= ceiling and quantity q > 0 there are ceil(q / floor(ceiling / m))
\* packages, each of one line, all but the last holding floor(ceiling / m) units.
C33_GreedyFirstFit ==
  (probe.kind = "pack" /\ probe.done) =>
    /\ \A i, j \in DOMAIN probe.out :
         i < j => probe.ceiling - CalculateShipmentWeight(catalog, probe.out[i])
                    < catalog[probe.out[j][1].productId].massG
    /\ \A p \in ProductIds :
         (SingleProduct(catalog, probe.items, p, probe.ceiling)
            /\ UnitsOf(probe.items, p) > 0) =>
           LET perPackage == probe.ceiling \div catalog[p].massG
               q == UnitsOf(probe.items, p)
           IN /\ Len(probe.out) = (q + perPackage - 1) \div perPackage
              /\ \A k \in DOMAIN probe.out :
                   probe.out[k] = <<Item(p, IF k < Len(probe.out) THEN perPackage
                                            ELSE q - perPackage * (Len(probe.out) - 1))>>

\* packShipment has returned two packages of one unit for a list of one line
\* with quantity 2 of a product of which the ceiling admits one unit
C33_Witness ==
  /\ probe.kind = "pack" /\ probe.done
  /\ Len(probe.items) = 1
  /\ \E p \in ProductIds :
       /\ SingleProduct(catalog, probe.items, p, probe.ceiling)
       /\ probe.ceiling \div catalog[p].massG = 1
       /\ probe.out = <<(<<Item(p, 1)>>), (<<Item(p, 1)>>)>>

(***************************************************************************)
(* C34                                                                     *)
(***************************************************************************)
\* order o waits for product pr: it is not fulfilled and its remainder holds pr,
\* which the catalog has with a unit mass of at most the ceiling
WaitsFor(o, pr) ==
  /\ orders[o].status # "fulfilled"
  /\ RemainingUnits(orders[o], pr) > 0
  /\ HasProduct(catalog, pr)
  /\ catalog[pr].massG <= MAX_PACKAGE_WEIGHT_G

\* C34: in the sequential runs (InitCatalog, ProcessOrder, ProcessRestock,
\* ResetCatalog one at a time), whenever no operation is in progress, no product
\* an unfulfilled order waits for is in stock; so there is no stock of it a
\* newly submitted order could take.
C34_WorkConserving ==
  AllIdle =>
    \A o \in DOMAIN orders, pr \in ProductIds :
      WaitsFor(o, pr) => GetAvailableStock(catalog, pr) = 0

(***************************************************************************)
(* C35                                                                     *)
(***************************************************************************)
\* C35: in the runs without ResetCatalog, under any interleaving of ProcessOrder
\* and ProcessRestock, whenever no operation is in progress, for every product
\* of the catalog the units restocked since InitCatalog equal the stock plus the
\* units of the product in all Shipment records.
C35_UnitConservation ==
  AllIdle =>
    \A pr \in ProductIds :
      HasProduct(catalog, pr) =>
        unitsRestocked[pr]
          = GetAvailableStock(catalog, pr) + ShipmentUnits(shipments, 0, pr)

(***************************************************************************)
(* C36                                                                     *)
(***************************************************************************)
\* C36: under any interleaving of ProcessOrder and ProcessRestock (every order
\* id submitted once, no product named twice in a list), whenever no operation
\* is in progress, the shipped quantity the ledger holds for each order and
\* product equals the sum of the product's quantities over the order's Shipment
\* records.
C36_LedgerMatchesShipments ==
  (PlainOrders /\ AllIdle) =>
    \A o \in DOMAIN orders, pr \in ProductIds :
      Shipped(o, pr) = ShipmentUnits(shipments, o, pr)

(***************************************************************************)
(* C37                                                                     *)
(***************************************************************************)
\* the errors with which a ProcessOrder or ProcessRestock operation can end
OperationErrors ==
  ReserveErrors \cup {"ShipmentExceedsCeiling", "OrderNotFound", "DuplicateOrder"}

\* C37: in the sequential runs whose orders name each product once with a
\* positive quantity, reserveStock never fails and no ProcessOrder or
\* ProcessRestock operation ends with an error.
C37_SequentialRunsNeverFail ==
  \A p \in Procs : procs[p].result \notin OperationErrors

\* a restock pass has ended without error after committing two packages, and a
\* restocked product is used up
C37_Witness ==
  /\ procs[1].pc = "idle" /\ procs[1].result = "ok"
  /\ procs[1].pass # NoPass
  /\ Len(shipments) >= procs[1].pass.nship + 2
  /\ \E pr \in ProductIds :
       /\ unitsRestocked[pr] > 0
       /\ HasProduct(catalog, pr) /\ GetAvailableStock(catalog, pr) = 0

(***************************************************************************)
(* C38                                                                     *)
(***************************************************************************)
\* the status the quantities of order o call for
StatusByQuantities(o) ==
  IF \A pr \in ProductIds : Shipped(o, pr) = 0 THEN "pending"
  ELSE IF AllShippedEqualRequested(o) THEN "fulfilled"
  ELSE "partially_fulfilled"

StatusRank(status) ==
  IF status = "pending" THEN 0 ELSE IF status = "partially_fulfilled" THEN 1 ELSE 2

\* C38: in the sequential runs in which no order id is submitted twice, whenever
\* no operation is in progress every order is pending iff it has no shipped
\* units, fulfilled iff shipped equals requested for every requested product and
\* partially_fulfilled otherwise; and no step moves the status of an order
\* backwards.
C38_StatusInvariant ==
  /\ []((resubmitted = {} /\ AllIdle) =>
         \A o \in DOMAIN orders : orders[o].status = StatusByQuantities(o))
  /\ [][resubmitted' = {} =>
         \A o \in DOMAIN orders :
           /\ o \in DOMAIN orders'
           /\ StatusRank(orders'[o].status) >= StatusRank(orders[o].status)]_vars

(***************************************************************************)
(* C39                                                                     *)
(***************************************************************************)
\* C39: for every catalog InitCatalog accepts (unit masses of any sign, 0
\* included) and every list of items with positive quantities,
\* GreedyFirstFitStrategy.packShipment terminates: every turn of the loop for an
\* item lowers the item's remaining quantity or ends the item, and the call
\* returns.
C39_PackingTerminates ==
  /\ [][(probe.pc = "loop" /\ probe'.pc = "loop" /\ probe'.todo = probe.todo)
         => probe'.remainingQuantity < probe.remainingQuantity]_vars
  /\ <>(probe.pc = "done")

(***************************************************************************)
(* C40                                                                     *)
(***************************************************************************)
\* getPendingOrderCount(): the size of the pending-order cache
GetPendingOrderCount == Cardinality(pendingOrders)

\* the orders of the ledger that are pending or partially fulfilled
UnfulfilledOrders ==
  {o \in DOMAIN orders : orders[o].status \in {"pending", "partially_fulfilled"}}

\* C40: in the sequential runs from an empty store, whenever no operation is in
\* progress, the size of the pending-order cache equals the number of orders of
\* the ledger whose status is pending or partially_fulfilled (and the cache
\* holds exactly those orders).
C40_PendingCountExact ==
  AllIdle =>
    /\ GetPendingOrderCount = Cardinality(UnfulfilledOrders)
    /\ pendingOrders = UnfulfilledOrders

\* at rest with one order fulfilled and out of the cache and another partially
\* fulfilled and in it
C40_Witness ==
  /\ AllIdle
  /\ \E o1, o2 \in DOMAIN orders :
       /\ orders[o1].status = "fulfilled"
       /\ orders[o2].status = "partially_fulfilled"
       /\ pendingOrders = {o2}

====
